---- MODULE Spec2Model ----
(***************************************************************************)
(* Aflow: the tool registry kept in step with a directory of Python tool   *)
(* files.  A Merkle tree over the tools directory (merkle_tree.py) detects *)
(* changes down to single functions; ToolManager.scan_tools                *)
(* (tool_manager.py) applies them to the Tool records of the graph store.  *)
(***************************************************************************)
EXTENDS Integers, Sequences, FiniteSets, TLC

\* ------------------------------------------------------------------ bounds
\* Number of filesystem edits one behaviour makes.
MaxEdits == 2

\* ------------------------------------------------------- the tools directory
\* A directory entry name, split the way os.path.splitext splits it.
Name(stem, ext) == [stem |-> stem, ext |-> ext]

DirD == Name("d", "")
DirPaths == {<<DirD>>}
PyPaths == {<<DirD, Name("a", "py")>>, <<DirD, Name("b", "py")>>}
TxtPaths == {<<DirD, Name("n", "txt")>>}
FilePaths == PyPaths \cup TxtPaths

FuncNames == {"f", "g"}
NoDoc == "<None>"
Docs == {NoDoc, "x"}
Bodies == {"b0", "b1"}
Extras == {"e0", "e1"}

\* The text of one public function definition: its name, docstring and body.
FuncSrcs == [doc : Docs, body : Bodies]
\* The bytes of a file: its public functions and everything else in it.
NoFuncs == [n \in {} |-> [doc |-> NoDoc, body |-> "b0"]]
PyContents == {[funcs |-> fs, extra |-> e] :
                 fs \in UNION {[S -> FuncSrcs] : S \in SUBSET FuncNames}, e \in Extras}
TxtContents == {[funcs |-> NoFuncs, extra |-> e] : e \in Extras}

Last(path) == path[Len(path)]
Parent(path) == SubSeq(path, 1, Len(path) - 1)
EndsWithPy(path) == Len(path) > 0 /\ Last(path).ext = "py"

EmptyFs == [dirs |-> {}, files |-> [p \in {} |-> [funcs |-> NoFuncs, extra |-> "e0"]]]

\* ------------------------------------------------------------------ hashes
\* hashlib.sha256 taken as injective: a digest is kept as what was hashed: `text`
\* the raw text, `head` the digest (if any) the text starts with, and `parts` the
\* sorted digests joined after it.  sorted(...) joined is kept as the multiset
\* {[h, n]} of the digests, which is all it depends on.
Sha(text, head, parts) == [text |-> text, head |-> head, parts |-> parts]

FuncText(name, src) == "def " \o name \o "(" \o src.doc \o "," \o src.body \o ")"

RECURSIVE FuncsText(_, _)
FuncsText(funcs, names) ==
    IF names = {} THEN ""
    ELSE LET n == CHOOSE x \in names : TRUE
         IN  (IF n \in DOMAIN funcs THEN FuncText(n, funcs[n]) ELSE "")
             \o FuncsText(funcs, names \ {n})

FileText(content) == FuncsText(content.funcs, FuncNames) \o "#" \o content.extra

\* sorted(child.hash for child in children.values()), joined
SortedJoin(children) ==
    LET hs == {children[c].hash : c \in DOMAIN children}
    IN  {[h |-> h, n |-> Cardinality({c \in DOMAIN children : children[c].hash = h})]
           : h \in hs}

NoneHash == Sha("<None>", {}, {})

calculate_file_hash(content) == Sha(FileText(content), {}, {})

calculate_function_hash(source) == Sha(source, {}, {})

\* ------------------------------------------------------------- MerkleNode
NoChildren == [c \in {} |-> 0]

NodePath(file, func) == [file |-> file, func |-> func]

MerkleNode(hash, path, children, is_file, is_function, content_hash, function_name, function_doc) ==
    [hash |-> hash, path |-> path, children |-> children, is_file |-> is_file,
     is_function |-> is_function, content_hash |-> content_hash,
     function_name |-> function_name, function_doc |-> function_doc]

\* _extract_functions: one node per public function of a Python file
extract_functions(file_path, content) ==
    [n \in DOMAIN content.funcs |->
        LET func_hash == calculate_function_hash(FuncText(n, content.funcs[n]))
        IN  MerkleNode(func_hash, NodePath(file_path, n), NoChildren, FALSE, TRUE,
                       func_hash, n, content.funcs[n].doc)]

\* os.listdir(path)
ListDir(fs, path) ==
    {Last(p) : p \in {q \in fs.dirs \cup DOMAIN fs.files : Parent(q) = path}}

RECURSIVE build_tree(_, _)
build_tree(fs, path) ==
    LET is_file == path \in DOMAIN fs.files
    IN  IF is_file /\ EndsWithPy(path) THEN
            LET content_hash == calculate_file_hash(fs.files[path])
                children == extract_functions(path, fs.files[path])
                hash_value == Sha("", {content_hash}, SortedJoin(children))
            IN  MerkleNode(hash_value, NodePath(path, ""), children, TRUE, FALSE,
                           content_hash, "<None>", NoDoc)
        ELSE IF is_file THEN
            LET content_hash == calculate_file_hash(fs.files[path])
            IN  MerkleNode(content_hash, NodePath(path, ""), NoChildren, TRUE, FALSE,
                           content_hash, "<None>", NoDoc)
        ELSE
            LET children == [name \in ListDir(fs, path) |->
                                build_tree(fs, Append(path, name))]
                hash_value == Sha("", {}, SortedJoin(children))
            IN  MerkleNode(hash_value, NodePath(path, ""), children, FALSE, FALSE,
                           NoneHash, "<None>", NoDoc)

\* ------------------------------------------------------ MerkleTree: the diff
\* An Optional[MerkleNode] is <<>> (None) or <<node>>.
None == <<>>
Some(node) == <<node>>

NoChanges == [added |-> {}, modified |-> {}, removed |-> {}, changed |-> {}]

Merge(results) ==
    [added |-> UNION {r.added : r \in results},
     modified |-> UNION {r.modified : r \in results},
     removed |-> UNION {r.removed : r \in results},
     changed |-> UNION {r.changed : r \in results}]

\* node.path.split('::')[0]
ParentPath(path) == NodePath(path.file, "")

\* path.endswith('.py')
IsPyPath(path) == path.func = "" /\ EndsWithPy(path.file)

Get(children, name) == IF name \in DOMAIN children THEN Some(children[name]) ELSE None

\* a comparison that walks the current file's functions only
compare_function_nodes_current(file_node1, file_node2) ==
    LET funcs1 == {n \in DOMAIN file_node1.children : file_node1.children[n].is_function}
        funcs2 == {n \in DOMAIN file_node2.children : file_node2.children[n].is_function}
        new == funcs1 \ funcs2
        mod == {n \in funcs1 \cap funcs2 :
                  file_node1.children[n].hash # file_node2.children[n].hash}
    IN  [added |-> {},
         modified |-> {file_node1.path : n \in new \cup mod},
         removed |-> {},
         changed |-> IF new \cup mod # {}
                     THEN {[file |-> file_node1.path, funcs |-> new \cup mod]}
                     ELSE {}]

\* _compare_function_nodes: the file paths it adds to `modified` and the entry it
\* writes to changed_functions (kept as {[file, funcs]})
compare_function_nodes(file_node1, file_node2) ==
    LET funcs1 == {n \in DOMAIN file_node1.children : file_node1.children[n].is_function}
        funcs2 == {n \in DOMAIN file_node2.children : file_node2.children[n].is_function}
        all_funcs == funcs1 \cup funcs2
        new == {n \in all_funcs : n \notin funcs2}
        gone == {n \in all_funcs : n \in funcs2 /\ n \notin funcs1}
        mod == {n \in funcs1 \cap funcs2 :
                  file_node1.children[n].hash # file_node2.children[n].hash}
        changed_funcs == new \cup gone \cup mod
    IN  [added |-> {},
         modified |-> {file_node1.path : n \in new \cup mod}
                        \cup {file_node2.path : n \in gone},
         removed |-> {},
         changed |-> IF changed_funcs # {}
                     THEN {[file |-> file_node1.path, funcs |-> changed_funcs]}
                     ELSE {}]

RECURSIVE compare_nodes(_, _)
compare_nodes(node1, node2) ==
    IF node1 = None /\ node2 = None THEN NoChanges
    ELSE IF node2 = None THEN
        LET n == node1[1]
        IN  IF n.is_file THEN [NoChanges EXCEPT !.added = {n.path}]
            ELSE IF n.is_function THEN
                [NoChanges EXCEPT !.modified = {ParentPath(n.path)}]
            ELSE Merge({compare_nodes(Some(n.children[c]), None) : c \in DOMAIN n.children})
    ELSE IF node1 = None THEN
        LET n == node2[1]
        IN  IF n.is_file THEN [NoChanges EXCEPT !.removed = {n.path}]
            ELSE IF n.is_function THEN
                [NoChanges EXCEPT !.modified = {ParentPath(n.path)}]
            ELSE Merge({compare_nodes(None, Some(n.children[c])) : c \in DOMAIN n.children})
    ELSE
        LET n1 == node1[1]
            n2 == node2[1]
        IN  IF n1.is_file /\ n2.is_file THEN
                Merge({[NoChanges EXCEPT
                          !.modified = IF n1.hash # n2.hash THEN {n1.path} ELSE {}],
                       IF IsPyPath(n1.path) THEN compare_function_nodes(n1, n2)
                                            ELSE NoChanges})
            ELSE
                LET all_children == DOMAIN n1.children \cup DOMAIN n2.children
                IN  Merge({compare_nodes(Get(n1.children, c), Get(n2.children, c))
                             : c \in all_children})

\* A ChangeSet as update and get_changes return it.
ChangeSet(added, modified, removed) ==
    [added |-> added, modified |-> modified, removed |-> removed]

\* {path for path in ... if path.endswith('.py')}
PyOnly(paths) == {p \in paths : IsPyPath(p)}

RECURSIVE get_all_files(_)
get_all_files(node) ==
    IF node.is_file THEN {node}
    ELSE UNION {get_all_files(node.children[c]) : c \in DOMAIN node.children}

\* The tree object: root, previous_root, changed_functions (root_dir is fixed).
Tree(r, prev, changed) == [root |-> r, previous_root |-> prev, changed_functions |-> changed]

NoChangedFunctions == [p \in {} |-> {}]

\* MerkleTree.__init__
NewTree(fs) == Tree(Some(build_tree(fs, <<>>)), None, NoChangedFunctions)

\* the dict _compare_function_nodes leaves in self.changed_functions
ChangedDict(changed) ==
    [p \in {c.file : c \in changed} |-> UNION {c.funcs : c \in {x \in changed : x.file = p}}]

\* a result that lists a new file under modified as well
Returned_twice(d) ==
    ChangeSet(PyOnly(d.added), PyOnly(d.modified \cup d.added), PyOnly(d.removed))

\* what update and get_changes return of a comparison d: the '.py' paths only
Returned(d) == ChangeSet(PyOnly(d.added), PyOnly(d.modified), PyOnly(d.removed))

\* get_changes with a previous root: the comparison also writes changed_functions
Compared(tree, d) ==
    [tree |-> [tree EXCEPT !.changed_functions =
                  ChangedDict(d.changed) @@ tree.changed_functions],
     changes |-> Returned(d)]

\* MerkleTree.get_changes
get_changes(tree) ==
    IF tree.previous_root = None THEN
        [tree |-> tree,
         changes |-> ChangeSet({node.path : node \in get_all_files(tree.root[1])}, {}, {})]
    ELSE Compared(tree, compare_nodes(tree.root, tree.previous_root))

\* update, once the tree is rebuilt and compared with the root it replaces
Updated(new_root, previous_root, d) ==
    [tree |-> Tree(new_root, previous_root, ChangedDict(d.changed)),
     changes |-> Returned(d)]

Rebuilt(new_root, previous_root) ==
    Updated(new_root, previous_root, compare_nodes(new_root, previous_root))

\* update that forgets to store the root it replaces in previous_root
update_keeps_previous(tree, fs) == Rebuilt(Some(build_tree(fs, <<>>)), tree.previous_root)

\* MerkleTree.update
update(tree, fs) == Rebuilt(Some(build_tree(fs, <<>>)), tree.root)

\* ------------------------------------------- MerkleTree: the persisted state
\* A JSON object is kept as the set of its {key, value} members.
RECURSIVE node_to_dict(_)
node_to_dict(node) ==
    [hash |-> node.hash,
     path |-> node.path,
     children |-> {[key |-> name, value |-> node_to_dict(node.children[name])]
                     : name \in DOMAIN node.children},
     is_file |-> node.is_file,
     content_hash |-> node.content_hash,
     is_function |-> node.is_function,
     function_name |-> node.function_name,
     function_doc |-> node.function_doc]

\* load_state reading a state that carries no is_function: data.get('is_function', False)
RECURSIVE dict_to_node_default(_)
dict_to_node_default(data) ==
    MerkleNode(data.hash,
               data.path,
               [name \in {m.key : m \in data.children} |->
                   dict_to_node_default((CHOOSE m \in data.children : m.key = name).value)],
               data.is_file,
               FALSE,
               data.content_hash,
               data.function_name,
               data.function_doc)

RECURSIVE dict_to_node(_)
dict_to_node(data) ==
    MerkleNode(data.hash,
               data.path,
               [name \in {m.key : m \in data.children} |->
                   dict_to_node((CHOOSE m \in data.children : m.key = name).value)],
               data.is_file,
               data.is_function,
               data.content_hash,
               data.function_name,
               data.function_doc)

\* MerkleTree.get_state
get_state(tree) ==
    [root |-> IF tree.root # None THEN Some(node_to_dict(tree.root[1])) ELSE None,
     previous_root |-> IF tree.previous_root # None
                       THEN Some(node_to_dict(tree.previous_root[1])) ELSE None]

\* MerkleTree.load_state
load_state(tree, state) ==
    [tree EXCEPT
       !.root = IF state.root # None THEN Some(dict_to_node(state.root[1])) ELSE None,
       !.previous_root = IF state.previous_root # None
                         THEN Some(dict_to_node(state.previous_root[1])) ELSE None]

\* ------------------------------------------------------ the Tool records
TaskNames == {"T"}

\* embedder.embed_query(text): the vector is kept as the text it was computed from
embed_query(text) == [of |-> text]

ToolRecord(description, category, embedding) ==
    [description |-> description, category |-> category, embedding |-> embedding]

\* os.path.splitext(rel_path)[0].replace(os.sep, '.'), kept as its '.'-separated parts
CategoryOf(file) == [i \in 1..Len(file) |-> file[i].stem]

\* ast.get_docstring(node) or ""
Description(doc) == IF doc = NoDoc THEN "" ELSE doc

NoneStr == "<None>"
NoneCategory == <<"<None>">>

Outcome(tools_, dirs_, raised) == [tools |-> tools_, dirs |-> dirs_, raised |-> raised]

\* ToolManager.create_tool
create_tool(store, dirs, name, description, category) ==
    IF Len(category) # 2 THEN Outcome(store, dirs, TRUE)
    ELSE LET made == dirs \cup {<<Name(category[1], "")>>}
         IN  IF name \in DOMAIN store THEN Outcome(store, made, FALSE)
             ELSE Outcome((name :> ToolRecord(description, category,
                                      embed_query(name \o " " \o description))) @@ store,
                          made, FALSE)

\* update_tool testing `if description:` where the code tests for None
update_tool_truthy(store, dirs, name, description, category) ==
    IF name \notin DOMAIN store THEN Outcome(store, dirs, TRUE)
    ELSE Outcome([store EXCEPT ![name] =
                    ToolRecord(IF description \in {NoneStr, ""} THEN @.description
                                                                ELSE description,
                               IF category = NoneCategory THEN @.category ELSE category,
                               embed_query(name \o " " \o
                                   (IF description = NoneStr THEN "" ELSE description)))],
                 dirs, FALSE)

\* ToolManager.update_tool
update_tool(store, dirs, name, description, category) ==
    IF name \notin DOMAIN store THEN Outcome(store, dirs, TRUE)
    ELSE LET embedding == embed_query(name \o " " \o
                              (IF description = NoneStr THEN "" ELSE description))
         IN  Outcome([store EXCEPT ![name] =
                        ToolRecord(IF description = NoneStr THEN @.description ELSE description,
                                   IF category = NoneCategory THEN @.category ELSE category,
                                   embedding)],
                     dirs, FALSE)

\* a Task's USES relationships point at the tool
Referenced(tasks_, name) ==
    \E t \in DOMAIN tasks_ : \E i \in 1..Len(tasks_[t].tool_names) :
        tasks_[t].tool_names[i] = name

\* MATCH (tool:Tool {name: $name}) DELETE tool: the store refuses to delete a node
\* that still has relationships
delete_tool(store, tasks_, name) ==
    IF name \in DOMAIN store /\ ~Referenced(tasks_, name)
    THEN [n \in DOMAIN store \ {name} |-> store[n]]
    ELSE store

DeleteRefused(store, tasks_, name) == name \in DOMAIN store /\ Referenced(tasks_, name)

\* ---------------------------------------------------- ToolManager.scan_tools
\* The running state of one scan: the store, the directories, whether an
\* exception has left scan_tools, and the tools embed_query was called for.
ScanState(tools_, dirs_, err) ==
    [tools |-> tools_, dirs |-> dirs_, err |-> err, embedded |-> {}]

\* A set iterated in the order `order` lists its elements.
Ordered(S, order) == SelectSeq(order, LAMBDA x : x \in S)

Orders(S) == {o \in [1..Cardinality(S) -> S] : \A i, j \in 1..Cardinality(S) :
                                                  i # j => o[i] # o[j]}

\* for part in rel_path.split(os.sep): node = node.children.get(part) if node else None
RECURSIVE Walk(_, _)
Walk(node, parts) ==
    IF parts = <<>> \/ node = None THEN node
    ELSE Walk(Get(node[1].children, Head(parts)), Tail(parts))

FunctionNames(node) ==
    IF node = None THEN {}
    ELSE {n \in DOMAIN node[1].children : node[1].children[n].is_function}

\* ToolManager._remove_tool; whether the store's refusal reaches the caller as an
\* exception depends on the driver (`surfaced`)
remove_tool(st, tasks_, tool_name, surfaced) ==
    [ScanState(delete_tool(st.tools, tasks_, tool_name), st.dirs,
               surfaced /\ DeleteRefused(st.tools, tasks_, tool_name))
        EXCEPT !.embedded = st.embedded]

RECURSIVE remove_tools(_, _, _, _)
remove_tools(st, names, tasks_, surfaced) ==
    IF names = <<>> \/ st.err THEN st
    ELSE remove_tools(remove_tool(st, tasks_, Head(names), surfaced), Tail(names),
                      tasks_, surfaced)

\* a create or update that raised is caught and printed: the scan goes on
Caught(r) == ScanState(r.tools, r.dirs, FALSE)

\* a round that leaves an existing tool as it is
process_function_keeping(st, func_name, description, category) ==
    [Caught(IF func_name \in DOMAIN st.tools
            THEN Outcome(st.tools, st.dirs, FALSE)
            ELSE create_tool(st.tools, st.dirs, func_name, description, category))
        EXCEPT !.embedded = st.embedded]

\* update_tool embeds once the tool is found, create_tool once the category is
\* split and no tool of the name is found
Embedded(store, func_name, category) ==
    IF func_name \in DOMAIN store \/ Len(category) = 2 THEN {func_name} ELSE {}

\* one round of _process_tool_file's loop: update the tool if it exists, else create it
process_function(st, func_name, description, category) ==
    [Caught(IF func_name \in DOMAIN st.tools
            THEN update_tool(st.tools, st.dirs, func_name, description, category)
            ELSE create_tool(st.tools, st.dirs, func_name, description, category))
        EXCEPT !.embedded = st.embedded \cup Embedded(st.tools, func_name, category)]

\* the loop of _process_tool_file over tools_info
RECURSIVE process_functions(_, _, _, _)
process_functions(st, names, content, category) ==
    IF names = {} THEN st
    ELSE LET func_name == CHOOSE n \in names : TRUE
         IN  process_functions(
                 process_function(st, func_name,
                                  Description(content.funcs[func_name].doc), category),
                 names \ {func_name}, content, category)

\* ToolManager._process_tool_file; not reached when an exception from
\* _remove_tool has left scan_tools
process_tool_file(st, tree, fs, file_path, changed_functions) ==
    IF st.err THEN st
    ELSE IF file_path.file \notin DOMAIN fs.files THEN st
    ELSE IF Walk(tree.root, file_path.file) = None THEN st
    ELSE process_functions(st, DOMAIN fs.files[file_path.file].funcs \cap changed_functions,
                           fs.files[file_path.file], CategoryOf(file_path.file))

\* new_funcs - old_funcs, the difference taken the wrong way round
deleted_funcs_swapped(tree, file_path) ==
    FunctionNames(Walk(tree.root, file_path.file))
      \ FunctionNames(Walk(tree.previous_root, file_path.file))

\* old_funcs - new_funcs of the file, read from previous_root and root
deleted_funcs(tree, file_path) ==
    FunctionNames(Walk(tree.previous_root, file_path.file))
      \ FunctionNames(Walk(tree.root, file_path.file))

\* the body of scan_tools' loop over changes['added'] | changes['modified']
process_changed_file(st, tree, fs, tasks_, file_path, func_order, surfaced) ==
    IF file_path \in DOMAIN tree.changed_functions
    THEN process_tool_file(
             remove_tools(st, Ordered(deleted_funcs(tree, file_path), func_order),
                          tasks_, surfaced),
             tree, fs, file_path, tree.changed_functions[file_path])
    ELSE process_tool_file(st, tree, fs, file_path, {})

RECURSIVE process_changed_files(_, _, _, _, _, _, _)
process_changed_files(st, tree, fs, tasks_, files, func_order, surfaced) ==
    IF files = <<>> \/ st.err THEN st
    ELSE process_changed_files(
             process_changed_file(st, tree, fs, tasks_, Head(files), func_order, surfaced),
             tree, fs, tasks_, Tail(files), func_order, surfaced)

\* _remove_tool_file looking the file up in the current root, where a removed file is not
remove_tool_file_in_root(st, tree, tasks_, file_path, func_order, surfaced) ==
    remove_tools(st, Ordered(FunctionNames(Walk(tree.root, file_path.file)), func_order),
                 tasks_, surfaced)

\* ToolManager._remove_tool_file
remove_tool_file(st, tree, tasks_, file_path, func_order, surfaced) ==
    remove_tools(st, Ordered(FunctionNames(Walk(tree.previous_root, file_path.file)),
                             func_order),
                 tasks_, surfaced)

RECURSIVE remove_tool_files(_, _, _, _, _, _)
remove_tool_files(st, tree, tasks_, files, func_order, surfaced) ==
    IF files = <<>> \/ st.err THEN st
    ELSE remove_tool_files(
             remove_tool_file(st, tree, tasks_, Head(files), func_order, surfaced),
             tree, tasks_, Tail(files), func_order, surfaced)

\* what one scan_tools call did: the tree and ChangeSet of its update, the
\* store and directories it left, and whether it returned normally
ScanResult(u, st) ==
    [tree |-> u.tree, changes |-> u.changes, tools |-> st.tools, dirs |-> st.dirs,
     completed |-> ~st.err, embedded |-> st.embedded]

\* scan_tools after its update u: the changed files, then the removed files
apply_changes(u, fs, store, tasks_, file_order, func_order, surfaced) ==
    ScanResult(u,
        remove_tool_files(
            process_changed_files(ScanState(store, fs.dirs, FALSE), u.tree, fs, tasks_,
                Ordered(u.changes.added \cup u.changes.modified, file_order),
                func_order, surfaced),
            u.tree, tasks_, Ordered(u.changes.removed, file_order), func_order, surfaced))

\* ------------------------------------------------------------------ state
VARIABLES
    fs,            \* the tools directory: its directories and its files' bytes
    edits,         \* how many edits were made to the directory
    running,       \* a ToolManager has been constructed and not been cleaned up
    merkle_tree,   \* ToolManager.merkle_tree: root, previous_root, changed_functions
    tools,         \* the store's Tool nodes, by name
    tasks,         \* the store's Task nodes, by name, with their USES relationships
    merkle_state,  \* the store's FileMerkleTree.state, None before the first save
    saved_fs,      \* history: the directory as it was when merkle_state was saved
    last,          \* history: the last operation and, for a scan, what it saw and did
    workflows,     \* the store's Workflow nodes, by name, with their CONTAINS relationships
    context,       \* the context_variables dict a caller hands to execute_task
    run,           \* history: what the last call of the task and workflow API did
    watch,         \* the file watcher, the clock and the threads inside scan_tools
    loader         \* sys.modules and the threads inside get_tool_function

vars == <<fs, edits, running, merkle_tree, tools, tasks, merkle_state, saved_fs, last,
          workflows, context, run, watch, loader>>

NoTree == Tree(None, None, NoChangedFunctions)
NoTools == [n \in {} |-> ToolRecord("", <<>>, embed_query(""))]
TaskRecord(tool_names, input_params, output_params) ==
    [tool_names |-> tool_names, input_params |-> input_params,
     output_params |-> output_params]
NoTasks == [t \in {} |-> TaskRecord(<<>>, <<>>, <<>>)]
NoWorkflows == [w \in {} |-> [task_names |-> <<>>]]
NoContext == [k \in {} |-> 0]
NoRun == [op |-> "none"]
NoWatch == [pc |-> "none"]
NoLoader == [pc |-> "none"]
NoChangeSet == ChangeSet({}, {}, {})

\* what `last` records: the operation, the ChangeSet it returned, whether it
\* returned normally, the Tool records it started from, whether a persisted
\* snapshot was loaded (had_state) from which directory content (since), and
\* whether it came right after a completed scan (follows)
Other(op) == [op |-> op, changes |-> NoChangeSet, completed |-> TRUE,
              tools_before |-> NoTools, had_state |-> FALSE, since |-> EmptyFs,
              follows |-> FALSE, embedded |-> {}]

ScanOps == {"start", "scan"}

FuncOrders == Orders(FuncNames)

\* The deployments a behaviour starts from, the process not yet started:
\* an empty tools directory on a first run; a directory with tool files on a
\* first run; and the same directory after earlier runs registered a.py's
\* functions and saved the snapshot.
SrcF == [doc |-> "x", body |-> "b0"]
SrcG == [doc |-> NoDoc, body |-> "b0"]
PathA == <<DirD, Name("a", "py")>>
PathB == <<DirD, Name("b", "py")>>
PathN == <<DirD, Name("n", "txt")>>
Fs1 ==
    [dirs |-> {<<DirD>>},
     files |-> (PathA :> [funcs |-> ("f" :> SrcF) @@ ("g" :> SrcG), extra |-> "e0"])
               @@ (PathB :> [funcs |-> ("f" :> SrcG), extra |-> "e0"])
               @@ (PathN :> [funcs |-> NoFuncs, extra |-> "e0"])]
Tools1 ==
    ("f" :> ToolRecord("x", CategoryOf(PathA), embed_query("f x")))
    @@ ("g" :> ToolRecord("", CategoryOf(PathA), embed_query("g ")))
State1 == Some(get_state(update(NewTree(Fs1), Fs1).tree))

Deployments ==
    {[fs |-> EmptyFs, tools |-> NoTools, merkle_state |-> None, saved_fs |-> EmptyFs],
     [fs |-> Fs1, tools |-> NoTools, merkle_state |-> None, saved_fs |-> EmptyFs],
     [fs |-> Fs1, tools |-> Tools1, merkle_state |-> State1, saved_fs |-> Fs1]}

Init ==
    /\ \E d \in Deployments :
         /\ fs = d.fs
         /\ tools = d.tools
         /\ merkle_state = d.merkle_state
         /\ saved_fs = d.saved_fs
    /\ edits = 0
    /\ running = FALSE
    /\ merkle_tree = NoTree
    /\ tasks = NoTasks
    /\ last = Other("init")
    /\ workflows = NoWorkflows
    /\ context = NoContext
    /\ run = NoRun
    /\ watch = NoWatch
    /\ loader = NoLoader

\* ----------------------------------------------------- edits of the directory
Entry(content, n) == IF n \in DOMAIN content.funcs THEN <<content.funcs[n]>> ELSE <<>>

\* one function added, removed or rewritten, or the rest of the file rewritten
OneChange(old, new) ==
    Cardinality({n \in FuncNames : Entry(old, n) # Entry(new, n)})
      + (IF old.extra # new.extra THEN 1 ELSE 0) = 1

NewFileContents(p) ==
    IF EndsWithPy(p)
    THEN {c \in PyContents : c.extra = "e0" /\ \A n \in DOMAIN c.funcs : c.funcs[n].body = "b0"}
    ELSE {c \in TxtContents : c.extra = "e0"}

\* open(tool_path, 'w').write(content)
WriteFile(p, content) ==
    /\ edits < MaxEdits
    /\ Parent(p) \in fs.dirs
    /\ IF p \in DOMAIN fs.files
       THEN /\ content \in (IF EndsWithPy(p) THEN PyContents ELSE TxtContents)
            /\ OneChange(fs.files[p], content)
       ELSE content \in NewFileContents(p)
    /\ fs' = [fs EXCEPT !.files = (p :> content) @@ @]
    /\ edits' = edits + 1
    /\ last' = Other("edit")
    /\ UNCHANGED <<running, merkle_tree, tools, tasks, merkle_state, saved_fs, workflows, context, run,
                   watch, loader>>

\* os.remove(tool_path)
RemoveFile(p) ==
    /\ edits < MaxEdits
    /\ p \in DOMAIN fs.files
    /\ fs' = [fs EXCEPT !.files = [q \in DOMAIN @ \ {p} |-> @[q]]]
    /\ edits' = edits + 1
    /\ last' = Other("edit")
    /\ UNCHANGED <<running, merkle_tree, tools, tasks, merkle_state, saved_fs, workflows, context, run,
                   watch, loader>>

\* os.makedirs(category_dir, exist_ok=True)
MakeDir(d) ==
    /\ edits < MaxEdits
    /\ d \notin fs.dirs
    /\ fs' = [fs EXCEPT !.dirs = @ \cup {d}]
    /\ edits' = edits + 1
    /\ last' = Other("edit")
    /\ UNCHANGED <<running, merkle_tree, tools, tasks, merkle_state, saved_fs, workflows, context, run,
                   watch, loader>>

\* shutil.rmtree of a category directory
RemoveTree(d) ==
    /\ edits < MaxEdits
    /\ d \in fs.dirs
    /\ fs' = [dirs |-> fs.dirs \ {d},
              files |-> [q \in {x \in DOMAIN fs.files : Parent(x) # d} |-> fs.files[q]]]
    /\ edits' = edits + 1
    /\ last' = Other("edit")
    /\ UNCHANGED <<running, merkle_tree, tools, tasks, merkle_state, saved_fs, workflows, context, run,
                   watch, loader>>

\* ------------------------------------------------------------- ToolManager
\* _save_merkle_state: json.dumps(self.merkle_tree.get_state()) into the store
save_merkle_state(tree) == Some(get_state(tree))

\* _load_merkle_state
load_merkle_state(tree, state) ==
    IF state = None THEN tree ELSE load_state(tree, state[1])

\* The orders in which one scan may iterate its sets (Python set order), and
\* whether a refused delete reaches the caller.  Only choices that can matter
\* are told apart: the order of the changed files, and, once a Task exists, the
\* order of a file's functions and the fate of a refused delete.
ScanChoices(changes, tasks_) ==
    {[file_order |-> fo, func_order |-> fu, surfaced |-> su] :
        fo \in Orders(changes.added \cup changes.modified \cup changes.removed),
        fu \in IF tasks_ = NoTasks THEN {CHOOSE o \in FuncOrders : TRUE} ELSE FuncOrders,
        su \in IF tasks_ = NoTasks THEN {FALSE} ELSE BOOLEAN}

\* the state a finished scan_tools call r leaves; _save_merkle_state is its last
\* statement, not reached when an exception left the scan
Scanned(op, r, had_state) ==
    /\ tools' = r.tools
    /\ fs' = [fs EXCEPT !.dirs = r.dirs]
    /\ merkle_state' = IF r.completed THEN save_merkle_state(r.tree) ELSE merkle_state
    /\ saved_fs' = IF r.completed THEN [fs EXCEPT !.dirs = r.dirs] ELSE saved_fs
    /\ last' = [op |-> op, changes |-> r.changes, completed |-> r.completed,
                tools_before |-> tools, had_state |-> had_state,
                since |-> IF had_state /\ op = "start" THEN saved_fs ELSE EmptyFs,
                follows |-> last.op \in ScanOps /\ last.completed,
                embedded |-> r.embedded]
    /\ IF op = "start"
       THEN /\ running' = r.completed
            /\ merkle_tree' = IF r.completed THEN r.tree ELSE NoTree
       ELSE /\ running' = running
            /\ merkle_tree' = r.tree

\* ToolManager.scan_tools, u being what self.merkle_tree.update() made and returned
scan_tools(op, u, had_state) ==
    \E c \in ScanChoices(u.changes, tasks) :
        Scanned(op,
                apply_changes(u, fs, tools, tasks, c.file_order, c.func_order, c.surfaced),
                had_state)

\* ToolManager.__init__: build the tree, load the persisted state, scan; an
\* exception leaving the scan leaves the constructor
Start ==
    /\ ~running
    /\ scan_tools("start", update(load_merkle_state(NewTree(fs), merkle_state), fs),
                  merkle_state # None)
    /\ UNCHANGED <<edits, tasks, workflows, context, run, watch, loader>>

\* ToolManager.scan_tools, called by the host or by the file watcher
Scan ==
    /\ running
    /\ scan_tools("scan", update(merkle_tree, fs), TRUE)
    /\ UNCHANGED <<edits, tasks, workflows, context, run, watch, loader>>

\* ToolManager.cleanup and the end of the process: what was in memory is gone
Stop ==
    /\ running
    /\ running' = FALSE
    /\ merkle_tree' = NoTree
    /\ last' = Other("stop")
    /\ UNCHANGED <<fs, edits, tools, tasks, merkle_state, saved_fs, workflows, context, run,
                   watch, loader>>

ToolLists == {<<"f">>, <<"g">>}

\* TaskManager.create_task: an existing name is returned as it is, a missing
\* tool raises, else the Task is created with one USES relationship per tool
CreateTask(name, tool_names) ==
    /\ running
    /\ edits < MaxEdits
    /\ name \notin DOMAIN tasks
    /\ \A i \in 1..Len(tool_names) : tool_names[i] \in DOMAIN tools
    /\ tasks' = (name :> TaskRecord(tool_names, <<>>, <<>>)) @@ tasks
    /\ edits' = edits + 1
    /\ last' = Other("create_task")
    /\ UNCHANGED <<fs, running, merkle_tree, tools, merkle_state, saved_fs, workflows, context, run,
                   watch, loader>>

Next ==
    \/ \E p \in FilePaths : \E c \in PyContents \cup TxtContents : WriteFile(p, c)
    \/ \E p \in FilePaths : RemoveFile(p)
    \/ \E d \in DirPaths : MakeDir(d)
    \/ \E d \in DirPaths : RemoveTree(d)
    \/ Start
    \/ Scan
    \/ Stop
    \/ \E name \in TaskNames, tool_names \in ToolLists : CreateTask(name, tool_names)

Spec == Init /\ [][Next]_vars

\* --------------------------------------------- the MerkleTree used on its own
\* A caller holds a MerkleTree over the directory and asks it for changes.
InitTree ==
    /\ \E f \in {EmptyFs, Fs1} :
         /\ fs = f
         /\ merkle_tree = NewTree(f)
    /\ edits = 0
    /\ running = FALSE
    /\ tools = NoTools
    /\ tasks = NoTasks
    /\ merkle_state = None
    /\ saved_fs = EmptyFs
    /\ last = Other("init")
    /\ workflows = NoWorkflows
    /\ context = NoContext
    /\ run = NoRun
    /\ watch = NoWatch
    /\ loader = NoLoader

\* a call on the tree returned r.changes and left the tree r.tree
TreeReturned(op, r) ==
    /\ merkle_tree' = r.tree
    /\ last' = [Other(op) EXCEPT !.changes = r.changes]
    /\ UNCHANGED <<fs, edits, running, tools, tasks, merkle_state, saved_fs, workflows, context, run,
                   watch, loader>>

TreeUpdate == TreeReturned("update", update(merkle_tree, fs))

TreeGetChanges == TreeReturned("get_changes", get_changes(merkle_tree))

NextTree ==
    \/ \E p \in FilePaths : \E c \in PyContents \cup TxtContents : WriteFile(p, c)
    \/ \E p \in FilePaths : RemoveFile(p)
    \/ \E d \in DirPaths : MakeDir(d)
    \/ \E d \in DirPaths : RemoveTree(d)
    \/ TreeUpdate
    \/ TreeGetChanges

SpecTree == InitTree /\ [][NextTree]_vars

\* --------------------------------------------- the ToolManager called directly
\* The host calls create_tool and update_tool on a running ToolManager, between
\* edits of the directory and rescans.
ToolNames == FuncNames
Descriptions == {"", "x"}
Uncategorized == <<"uncategorized">>
Categories == {CategoryOf(p) : p \in PyPaths} \cup {Uncategorized}

\* what `run` records of a call of the tool API: the call, whether it raised,
\* the record it returned (None if it raised) and the store it started from
ToolCall(op, name, description, category, r) ==
    [op |-> op, name |-> name, description |-> description, category |-> category,
     raised |-> r.raised,
     returned |-> IF r.raised THEN None ELSE Some(r.tools[name]),
     tools_before |-> tools]

ToolCalled(op, name, description, category, r) ==
    /\ tools' = r.tools
    /\ fs' = [fs EXCEPT !.dirs = r.dirs]
    /\ run' = ToolCall(op, name, description, category, r)
    /\ edits' = edits + 1
    /\ last' = Other(op)
    /\ UNCHANGED <<running, merkle_tree, tasks, merkle_state, saved_fs, workflows, context,
                   watch, loader>>

\* ToolManager.create_tool called by the host
CreateTool(name, description, category) ==
    /\ running
    /\ edits < MaxEdits
    /\ ToolCalled("create_tool", name, description, category,
                  create_tool(tools, fs.dirs, name, description, category))

\* ToolManager.update_tool called by the host
UpdateTool(name, description, category) ==
    /\ running
    /\ edits < MaxEdits
    /\ ToolCalled("update_tool", name, description, category,
                  update_tool(tools, fs.dirs, name, description, category))

NextApi ==
    \/ \E p \in FilePaths : \E c \in PyContents \cup TxtContents : WriteFile(p, c)
    \/ Start
    \/ Scan
    \/ \E name \in ToolNames, description \in Descriptions, category \in Categories :
          CreateTool(name, description, category)
    \/ \E name \in ToolNames, description \in Descriptions \cup {NoneStr},
          category \in Categories \cup {NoneCategory} :
          UpdateTool(name, description, category)

SpecApi == Init /\ [][NextApi]_vars

\* ------------------------------------------ TaskManager and WorkflowManager
\* for x in xs: if not exists(x): missing.append(x)
Missing(xs, existing) == SelectSeq(xs, LAMBDA x : x \notin existing)

Elements(xs) == {xs[i] : i \in 1..Len(xs)}

\* what a call on the task or workflow store leaves and returns
StoreOutcome(records, raised, missing) ==
    [records |-> records, raised |-> raised, missing |-> missing]

\* create_task reporting only the first tool it misses
create_task_first_missing(store, tasks_, name, tool_names, input_params, output_params) ==
    IF name \in DOMAIN tasks_ THEN StoreOutcome(tasks_, FALSE, <<>>)
    ELSE IF Missing(tool_names, DOMAIN store) # <<>>
    THEN StoreOutcome(tasks_, TRUE, <<Head(Missing(tool_names, DOMAIN store))>>)
    ELSE StoreOutcome((name :> TaskRecord(tool_names, input_params, output_params)) @@ tasks_,
                      FALSE, <<>>)

\* TaskManager.create_task: an existing name is returned as it is; else every
\* tool name is looked up and the missing ones raise ValueError together; else
\* the Task is created with one USES relationship per tool, order = its index
create_task(store, tasks_, name, tool_names, input_params, output_params) ==
    IF name \in DOMAIN tasks_ THEN StoreOutcome(tasks_, FALSE, <<>>)
    ELSE IF Missing(tool_names, DOMAIN store) # <<>>
    THEN StoreOutcome(tasks_, TRUE, Missing(tool_names, DOMAIN store))
    ELSE StoreOutcome((name :> TaskRecord(tool_names, input_params, output_params)) @@ tasks_,
                      FALSE, <<>>)

\* a member of create_workflow's tasks argument: {'name': ..., 'order': ...}
WorkflowTask(name, order) == [name |-> name, order |-> order]

TaskNamesOf(wtasks) == [i \in 1..Len(wtasks) |-> wtasks[i].name]

\* WorkflowManager.create_workflow: as create_task, with CONTAINS relationships
create_workflow(tasks_, workflows_, name, wtasks) ==
    IF name \in DOMAIN workflows_ THEN StoreOutcome(workflows_, FALSE, <<>>)
    ELSE IF Missing(TaskNamesOf(wtasks), DOMAIN tasks_) # <<>>
    THEN StoreOutcome(workflows_, TRUE, Missing(TaskNamesOf(wtasks), DOMAIN tasks_))
    ELSE StoreOutcome((name :> [task_names |-> wtasks]) @@ workflows_, FALSE, <<>>)

\* MATCH (w:Workflow)-[:CONTAINS]->(t:Task {name: $task_name}) RETURN count(w) > 0
Used(workflows_, task_name) ==
    \E w \in DOMAIN workflows_ : task_name \in Elements(TaskNamesOf(workflows_[w].task_names))

\* delete_task that deletes without asking whether a workflow contains the task
delete_task_unasked(tasks_, workflows_, task_name) ==
    StoreOutcome([t \in DOMAIN tasks_ \ {task_name} |-> tasks_[t]], FALSE, <<>>)

\* TaskManager.delete_task: ValueError if a workflow contains the task, else
\* DETACH DELETE: the Task node goes with its USES relationships
delete_task(tasks_, workflows_, task_name) ==
    IF Used(workflows_, task_name) THEN StoreOutcome(tasks_, TRUE, <<>>)
    ELSE StoreOutcome([t \in DOMAIN tasks_ \ {task_name} |-> tasks_[t]], FALSE, <<>>)

\* The host works on the task and workflow store; the Tool records are those of
\* an earlier run of the ToolManager.
MissingTools == {"h", "k"}
MissingTask == "V"
AllTaskNames == TaskNames \cup {"U"}
MaxRefs == 2

Lists(S) == UNION {[1..n -> S] : n \in 0..MaxRefs}

\* callers number the tasks of a workflow in the order they list them
Numbered(names) == [i \in 1..Len(names) |-> WorkflowTask(names[i], i)]

\* what `run` records of a call of the task and workflow API
StoreCall(op, name, refs, r) ==
    [op |-> op, name |-> name, refs |-> refs, raised |-> r.raised, missing |-> r.missing,
     tools_before |-> tools, tasks_before |-> tasks, workflows_before |-> workflows]

InitTasks ==
    /\ fs = Fs1
    /\ tools = Tools1
    /\ merkle_state = State1
    /\ saved_fs = Fs1
    /\ edits = 0
    /\ running = FALSE
    /\ merkle_tree = NoTree
    /\ tasks = NoTasks
    /\ last = Other("init")
    /\ workflows = NoWorkflows
    /\ context = NoContext
    /\ run = NoRun
    /\ watch = NoWatch
    /\ loader = NoLoader

TaskCalled(op, name, refs, r) ==
    /\ tasks' = r.records
    /\ run' = StoreCall(op, name, refs, r)
    /\ last' = Other(op)
    /\ UNCHANGED <<fs, edits, running, merkle_tree, tools, merkle_state, saved_fs,
                   workflows, context,
                   watch, loader>>

\* TaskManager.create_task called by the host
CallCreateTask(name, tool_names) ==
    TaskCalled("create_task", name, tool_names,
               create_task(tools, tasks, name, tool_names, <<>>, <<>>))

\* TaskManager.delete_task called by the host
DeleteTask(name) ==
    TaskCalled("delete_task", name, <<>>, delete_task(tasks, workflows, name))

WorkflowCalled(op, name, refs, r) ==
    /\ workflows' = r.records
    /\ run' = StoreCall(op, name, refs, r)
    /\ last' = Other(op)
    /\ UNCHANGED <<fs, edits, running, merkle_tree, tools, tasks, merkle_state, saved_fs,
                   context,
                   watch, loader>>

\* WorkflowManager.create_workflow called by the host
CreateWorkflow(name, names) ==
    WorkflowCalled("create_workflow", name, names,
                   create_workflow(tasks, workflows, name, Numbered(names)))

NextTasks ==
    \/ \E name \in AllTaskNames, tool_names \in Lists({"f"} \cup MissingTools) :
          CallCreateTask(name, tool_names)
    \/ \E name \in AllTaskNames \cup {MissingTask} : DeleteTask(name)
    \/ \E name \in {"W"}, names \in Lists(AllTaskNames) :
          CreateWorkflow(name, names)

SpecTasks == InitTasks /\ [][NextTasks]_vars

\* ---------------------------------------- create_task called concurrently
\* The host's callers of create_task.  Each store call of create_task is one
\* step; the store runs the calls of different callers in any order.  `run`
\* holds every caller's position and the Task nodes of the store, and `tasks`
\* what MATCH (task:Task {name: $name}) ... LIMIT 1 finds for each name.
Callers == {"c1", "c2"}

IdleCall == [pc |-> "idle"]

TaskNode(name, tool_names) == [name |-> name, tool_names |-> tool_names]

InitCreate ==
    /\ fs = Fs1
    /\ tools = Tools1
    /\ merkle_state = State1
    /\ saved_fs = Fs1
    /\ edits = 0
    /\ running = FALSE
    /\ merkle_tree = NoTree
    /\ tasks = NoTasks
    /\ last = Other("init")
    /\ workflows = NoWorkflows
    /\ context = NoContext
    /\ run = [op |-> "create_task", calls |-> [c \in Callers |-> IdleCall], nodes |-> <<>>]
    /\ watch = NoWatch
    /\ loader = NoLoader

CallStep(c, call) ==
    /\ run' = [run EXCEPT !.calls[c] = call]
    /\ UNCHANGED <<fs, edits, running, merkle_tree, tools, tasks, merkle_state, saved_fs,
                   last, workflows, context, watch, loader>>

\* a caller enters create_task
EnterCreateTask(c, name, tool_names) ==
    /\ run.calls[c].pc = "idle"
    /\ edits < MaxEdits
    /\ edits' = edits + 1
    /\ run' = [run EXCEPT !.calls[c] = [pc |-> "match", name |-> name,
                                        tool_names |-> tool_names]]
    /\ UNCHANGED <<fs, running, merkle_tree, tools, tasks, merkle_state, saved_fs, last,
                   workflows, context, watch, loader>>

\* MATCH (task:Task {name: $name}) RETURN task LIMIT 1; an existing task is returned
MatchTask(c) ==
    /\ run.calls[c].pc = "match"
    /\ CallStep(c, IF run.calls[c].name \in DOMAIN tasks
                   THEN [pc |-> "idle", returned |-> "existing"]
                   ELSE [run.calls[c] EXCEPT !.pc = "tools"])

\* the lookups of the tools; missing ones raise ValueError
MatchTools(c) ==
    /\ run.calls[c].pc = "tools"
    /\ CallStep(c, IF Missing(run.calls[c].tool_names, DOMAIN tools) # <<>>
                   THEN [pc |-> "idle", returned |-> "ValueError"]
                   ELSE [run.calls[c] EXCEPT !.pc = "create"])

\* CREATE (task:Task {...}): a new node, whatever nodes the store holds
CreateNode(c) ==
    /\ run.calls[c].pc = "create"
    /\ run' = [run EXCEPT !.calls[c] = [pc |-> "idle", returned |-> "created"],
                          !.nodes = Append(@, TaskNode(run.calls[c].name,
                                                       run.calls[c].tool_names))]
    /\ tasks' = IF run.calls[c].name \in DOMAIN tasks THEN tasks
                ELSE (run.calls[c].name :> TaskRecord(run.calls[c].tool_names, <<>>, <<>>))
                         @@ tasks
    /\ UNCHANGED <<fs, edits, running, merkle_tree, tools, merkle_state, saved_fs, last,
                   workflows, context, watch, loader>>

NextCreate ==
    \/ \E c \in Callers, name \in AllTaskNames, tool_names \in Lists({"f"} \cup MissingTools) :
          EnterCreateTask(c, name, tool_names)
    \/ \E c \in Callers : MatchTask(c)
    \/ \E c \in Callers : MatchTools(c)
    \/ \E c \in Callers : CreateNode(c)

SpecCreate == InitCreate /\ [][NextCreate]_vars

\* -------------------------------------------------- TaskManager.execute_task
\* Python values a context holds: ints and strs, told apart.
IntV(i) == [int |-> i]
StrV(s) == [str |-> s]
IsInt(v) == DOMAIN v = {"int"}

\* str(v)
str(v) == IF IsInt(v) THEN StrV(ToString(v.int)) ELSE v

\* The tool functions of d/a.py.  A function's source is kept as its doc comment
\* and the rest of its text: signature and body.
DoubleBody == "(n): return {'n': n * 2}"
StringifyBody == "(n): return {'s': str(n)}"
IncBody == "(n, by=1): return n + by"
TotalBody == "(a, b): return a + b"
LabelBody == "(n) -> 's': return 'v' + str(n)"
FailBody == "(n): raise ValueError('bad n')"
ReturnsDoc == "Add.\n\nReturns:\n    n: the total"

ExecFuncs ==
    ("double" :> [doc |-> NoDoc, body |-> DoubleBody])
    @@ ("stringify" :> [doc |-> NoDoc, body |-> StringifyBody])
    @@ ("inc" :> [doc |-> NoDoc, body |-> IncBody])
    @@ ("total" :> [doc |-> ReturnsDoc, body |-> TotalBody])
    @@ ("label" :> [doc |-> NoDoc, body |-> LabelBody])
    @@ ("tag" :> [doc |-> ReturnsDoc, body |-> LabelBody])
    @@ ("fail" :> [doc |-> NoDoc, body |-> FailBody])

ExecNames == DOMAIN ExecFuncs

ExecFs ==
    [dirs |-> {<<DirD>>},
     files |-> (PathA :> [funcs |-> ExecFuncs, extra |-> "e0"])]

\* the Tool records a ToolManager registered for the functions of d/a.py
ExecTools ==
    [n \in ExecNames |->
        ToolRecord(Description(ExecFuncs[n].doc), CategoryOf(PathA),
                   embed_query(n \o " " \o Description(ExecFuncs[n].doc)))]

\* inspect.signature(tool_function).parameters: name and whether it has no default
Param(name, required) == [name |-> name, required |-> required]

Parameters(body) ==
    CASE body = DoubleBody -> <<Param("n", TRUE)>>
      [] body = StringifyBody -> <<Param("n", TRUE)>>
      [] body = IncBody -> <<Param("n", TRUE), Param("by", FALSE)>>
      [] body = TotalBody -> <<Param("a", TRUE), Param("b", TRUE)>>
      [] body = LabelBody -> <<Param("n", TRUE)>>
      [] body = FailBody -> <<Param("n", TRUE)>>

\* inspect.signature(tool_function).return_annotation, if it is a str
ReturnAnnotation(body) == IF body = LabelBody THEN Some("s") ELSE None

\* inspect.getdoc(tool_function).split('\n'), each line as its words, ':' a word
DocLines(doc) ==
    IF doc = ReturnsDoc
    THEN <<<<"Add.">>, <<>>, <<"Returns", ":">>, <<"n", ":", "the total">>>>
    ELSE <<>>

\* what a tool call gives: it raised, or returned a dict, or another value
Raised == [raised |-> TRUE, is_dict |-> FALSE, value |-> IntV(0)]
Dict(d) == [raised |-> FALSE, is_dict |-> TRUE, value |-> d]
Plain(v) == [raised |-> FALSE, is_dict |-> FALSE, value |-> v]

\* tool_function(**tool_params)
Apply(body, args) ==
    CASE body = DoubleBody ->
            Dict("n" :> (IF IsInt(args.n) THEN IntV(args.n.int * 2)
                                          ELSE StrV(args.n.str \o args.n.str)))
      [] body = StringifyBody -> Dict("s" :> str(args.n))
      [] body = IncBody ->
            IF ~IsInt(args.n) THEN Raised
            ELSE IF "by" \notin DOMAIN args THEN Plain(IntV(args.n.int + 1))
            ELSE IF IsInt(args.by) THEN Plain(IntV(args.n.int + args.by.int))
            ELSE Raised
      [] body = TotalBody ->
            IF IsInt(args.a) /\ IsInt(args.b) THEN Plain(IntV(args.a.int + args.b.int))
            ELSE IF ~IsInt(args.a) /\ ~IsInt(args.b) THEN Plain(StrV(args.a.str \o args.b.str))
            ELSE Raised
      [] body = LabelBody -> Plain(StrV("v" \o str(args.n).str))
      [] body = FailBody -> Raised

\* tools_dir/category_name/module_name.py
ModulePath(category) == <<Name(category[1], ""), Name(category[2], "py")>>

LoadFailed(error) == [raised |-> TRUE, error |-> error, function |-> None]

\* importing the module (the process has not imported it before) and getattr
ModuleFunction(fs_, path, tool_name) ==
    IF path \notin DOMAIN fs_.files THEN LoadFailed("ImportError")
    ELSE IF tool_name \notin DOMAIN fs_.files[path].funcs THEN LoadFailed("AttributeError")
    ELSE [raised |-> FALSE, error |-> "", function |-> Some(fs_.files[path].funcs[tool_name])]

\* ToolManager.get_tool_function
get_tool_function(store, fs_, tool_name) ==
    IF tool_name \notin DOMAIN store THEN LoadFailed("ValueError")
    ELSE IF Len(store[tool_name].category) # 2 THEN LoadFailed("ValueError")
    ELSE ModuleFunction(fs_, ModulePath(store[tool_name].category), tool_name)

\* the running state of one execute_task call: the context dict, results, the
\* calls made (tool, bound arguments, context before and after, result), the
\* tools whose implementation was asked for, and the exception, if any
NoError == [type |-> "", about |-> "", tool |-> "", names |-> <<>>]
Error(type, about, tool, names) ==
    [type |-> type, about |-> about, tool |-> tool, names |-> names]

NoResults == [t \in {} |-> Raised]

ExecState(ctx, results, calls, loads, err) ==
    [ctx |-> ctx, results |-> results, calls |-> calls, loads |-> loads, err |-> err]

\* first ':' of a line, 0 if none
RECURSIVE Colon(_, _)
Colon(line, i) ==
    IF i > Len(line) THEN 0 ELSE IF line[i] = ":" THEN i ELSE Colon(line, i + 1)

RECURSIVE Joined(_)
Joined(words) ==
    IF words = <<>> THEN ""
    ELSE IF Len(words) = 1 THEN words[1]
    ELSE words[1] \o " " \o Joined(Tail(words))

\* 'Returns:' in line
HasReturns(line) == \E i \in 1..Len(line) - 1 : line[i] = "Returns" /\ line[i + 1] = ":"

\* the docstring loop: the first line with 'Returns:' that has a next line ends
\* the search; the next line's text before its first ':' is the name
RECURSIVE DocReturnName(_, _)
DocReturnName(lines, i) ==
    IF i > Len(lines) THEN None
    ELSE IF HasReturns(lines[i]) /\ i + 1 <= Len(lines)
    THEN IF Colon(lines[i + 1], 1) > 0
         THEN Some(Joined(SubSeq(lines[i + 1], 1, Colon(lines[i + 1], 1) - 1)))
         ELSE None
    ELSE DocReturnName(lines, i + 1)

Stored(ctx, name, value) == IF name = None THEN ctx ELSE (name[1] :> value) @@ ctx

\* a merge that also files a dict result under the tool's name
merge_result_named(ctx, tool_name, function, result) ==
    (tool_name :> result.value) @@ (IF result.is_dict THEN result.value @@ ctx ELSE ctx)

\* a merge in which a dict result takes the place of the context
merge_result_replacing(ctx, tool_name, function, result) ==
    IF result.is_dict THEN result.value
    ELSE Stored(ctx, Some(tool_name), result.value)

\* "Update context variables for next tool"
merge_result(ctx, tool_name, function, result) ==
    IF result.is_dict THEN result.value @@ ctx
    ELSE Stored(Stored(Stored(ctx, Some(tool_name), result.value),
                       ReturnAnnotation(function.body), result.value),
                DocReturnName(DocLines(function.doc), 1), result.value)

\* the names of the parameters that are keys of the context
Bound(params, ctx) == {params[i].name : i \in 1..Len(params)} \cap DOMAIN ctx

\* binding that gives up at the first required parameter it misses
missing_params_first(params, ctx) ==
    LET all == SelectSeq(params, LAMBDA q : q.required /\ q.name \notin DOMAIN ctx)
    IN  IF all = <<>> THEN <<>> ELSE <<all[1].name>>

\* the required parameters that are no keys of the context, in signature order
missing_params(params, ctx) ==
    LET all == SelectSeq(params, LAMBDA q : q.required /\ q.name \notin DOMAIN ctx)
    IN  [i \in 1..Len(all) |-> all[i].name]

Call(tool, args, before, result, after) ==
    [tool |-> tool, args |-> args, before |-> before, result |-> result, after |-> after]

\* the tool returned (or raised) result, called with args
Returned_from(st, tool_name, function, args, result) ==
    IF result.raised
    THEN [st EXCEPT !.err = Error("RuntimeError", "raised", tool_name, <<>>),
                    !.calls = Append(@, Call(tool_name, args, st.ctx, result, st.ctx))]
    ELSE ExecState(merge_result(st.ctx, tool_name, function, result),
                   (tool_name :> result) @@ st.results,
                   Append(st.calls, Call(tool_name, args, st.ctx, result,
                                         merge_result(st.ctx, tool_name, function, result))),
                   st.loads, NoError)

Invoked(st, tool_name, function, args) ==
    Returned_from(st, tool_name, function, args, Apply(function.body, args))

\* one turn of the loop with the function object in hand
Turn(st, tool_name, function, missing) ==
    IF missing # <<>>
    THEN [st EXCEPT !.err = Error("RuntimeError", "missing_params", tool_name, missing)]
    ELSE Invoked(st, tool_name, function,
                 [q \in Bound(Parameters(function.body), st.ctx) |-> st.ctx[q]])

Resolved(st, tool_name, f) ==
    IF f.raised THEN [st EXCEPT !.err = Error("RuntimeError", f.error, tool_name, <<>>)]
    ELSE Turn(st, tool_name, f.function[1],
              missing_params(Parameters(f.function[1].body), st.ctx))

\* the body of `for tool in tools:`; any exception becomes a RuntimeError
run_tool(st, store, fs_, tool_name) ==
    Resolved([st EXCEPT !.loads = Append(@, tool_name)], tool_name,
             get_tool_function(store, fs_, tool_name))

RECURSIVE run_tools(_, _, _, _)
run_tools(st, store, fs_, tool_names) ==
    IF tool_names = <<>> \/ st.err # NoError THEN st
    ELSE run_tools(run_tool(st, store, fs_, Head(tool_names)), store, fs_, Tail(tool_names))

RECURSIVE Reversed(_)
Reversed(xs) == IF xs = <<>> THEN <<>> ELSE Append(Reversed(Tail(xs)), Head(xs))

\* the tools collected without ORDER BY r.order, as the store happens to yield them
collected_tools_unordered(task) == Reversed(task.tool_names)

\* MATCH (task)-[r:USES]->(tool) WITH task, tool ORDER BY r.order ... collect(tool);
\* create_task numbered the relationships by the index in tool_names
collected_tools(task) == task.tool_names

Restricted(ctx, names) == [k \in Elements(names) \cap DOMAIN ctx |-> ctx[k]]

\* a return that hands out the outputs it finds without asking for the others
Finished_unchecked(st, output_params) ==
    IF st.err # NoError THEN [st EXCEPT !.results = NoResults] @@ [outputs |-> NoContext]
    ELSE st @@ [outputs |-> Restricted(st.ctx, output_params)]

\* what execute_task returns, or the exception that leaves it
Finished(st, output_params) ==
    IF st.err # NoError THEN [st EXCEPT !.results = NoResults] @@ [outputs |-> NoContext]
    ELSE IF Missing(output_params, DOMAIN st.ctx) # <<>>
    THEN [st EXCEPT !.results = NoResults,
                    !.err = Error("ValueError", "missing_outputs", "",
                                  Missing(output_params, DOMAIN st.ctx))]
         @@ [outputs |-> NoContext]
    ELSE st @@ [outputs |-> Restricted(st.ctx, output_params)]

Failed(ctx, err) ==
    ExecState(ctx, NoResults, <<>>, <<>>, err) @@ [outputs |-> NoContext]

\* execute_task that goes to the tools without looking at input_params
execute_task_unvalidated(store, tasks_, fs_, task_name, ctx) ==
    IF task_name \notin DOMAIN tasks_ \/ collected_tools(tasks_[task_name]) = <<>>
    THEN Failed(ctx, Error("ValueError", "not_found", "", <<>>))
    ELSE Finished(run_tools(ExecState(ctx, NoResults, <<>>, <<>>, NoError), store, fs_,
                            collected_tools(tasks_[task_name])),
                  tasks_[task_name].output_params)

\* TaskManager.execute_task
execute_task(store, tasks_, fs_, task_name, ctx) ==
    IF task_name \notin DOMAIN tasks_ \/ collected_tools(tasks_[task_name]) = <<>>
    THEN Failed(ctx, Error("ValueError", "not_found", "", <<>>))
    ELSE IF Missing(tasks_[task_name].input_params, DOMAIN ctx) # <<>>
    THEN Failed(ctx, Error("ValueError", "missing_inputs", "",
                           Missing(tasks_[task_name].input_params, DOMAIN ctx)))
    ELSE Finished(run_tools(ExecState(ctx, NoResults, <<>>, <<>>, NoError), store, fs_,
                            collected_tools(tasks_[task_name])),
                  tasks_[task_name].output_params)

\* A host executes a task of the store with a context of its own.
InputParams == {<<>>, <<"n">>, <<"n", "a">>, <<"a", "b">>}
OutputParams == {<<>>, <<"s">>, <<"s", "n">>}
ContextValues == ("n" :> IntV(3)) @@ ("a" :> IntV(1)) @@ ("b" :> IntV(2)) @@ ("s" :> StrV("p"))
Contexts == {[k \in keys |-> ContextValues[k]] : keys \in SUBSET DOMAIN ContextValues}

InitExec ==
    /\ fs = ExecFs
    /\ tools = ExecTools
    /\ merkle_state = Some(get_state(update(NewTree(ExecFs), ExecFs).tree))
    /\ saved_fs = ExecFs
    /\ edits = 0
    /\ running = FALSE
    /\ merkle_tree = NoTree
    /\ \E tool_names \in Lists(ExecNames), input_params \in InputParams,
          output_params \in OutputParams :
          tasks = create_task(ExecTools, NoTasks, "T", tool_names, input_params,
                              output_params).records
    /\ last = Other("init")
    /\ workflows = NoWorkflows
    /\ context \in Contexts
    /\ run = NoRun
    /\ watch = NoWatch
    /\ loader = NoLoader

\* execute_task returned or raised r; the caller's dict is the one the loop
\* updated, unless it was empty (`context_variables or {}` made a new one)
Executed(task_name, r) ==
    /\ context' = IF context = NoContext THEN context ELSE r.ctx
    /\ run' = [op |-> "execute_task", name |-> task_name, context_before |-> context,
               raised |-> r.err # NoError, err |-> r.err, calls |-> r.calls,
               loads |-> r.loads, results |-> r.results, outputs |-> r.outputs,
               context |-> r.ctx]
    /\ last' = Other("execute_task")
    /\ UNCHANGED <<fs, edits, running, merkle_tree, tools, tasks, merkle_state, saved_fs,
                   workflows,
                   watch, loader>>

ExecuteTask(task_name) ==
    /\ run = NoRun
    /\ Executed(task_name, execute_task(tools, tasks, fs, task_name, context))

NextExec == \E task_name \in AllTaskNames : ExecuteTask(task_name)

SpecExec == InitExec /\ [][NextExec]_vars

\* ---------------------------------------------------------------------------
\* A deployment whose store holds a Task: d/a.py defines f, d/b.py defines g,
\* both registered, and Task T uses f.
\* ---------------------------------------------------------------------------
FsUsed ==
    [dirs |-> {<<DirD>>},
     files |-> (PathA :> [funcs |-> ("f" :> SrcF), extra |-> "e0"])
               @@ (PathB :> [funcs |-> ("g" :> SrcG), extra |-> "e0"])]

ToolsUsed ==
    ("f" :> ToolRecord("x", CategoryOf(PathA), embed_query("f x")))
    @@ ("g" :> ToolRecord("", CategoryOf(PathB), embed_query("g ")))

InitUsed ==
    /\ fs = FsUsed
    /\ tools = ToolsUsed
    /\ merkle_state = Some(get_state(update(NewTree(FsUsed), FsUsed).tree))
    /\ saved_fs = FsUsed
    /\ edits = 0
    /\ running = FALSE
    /\ merkle_tree = NoTree
    /\ tasks = create_task(ToolsUsed, NoTasks, "T", <<"f">>, <<>>, <<>>).records
    /\ last = Other("init")
    /\ workflows = NoWorkflows
    /\ context = NoContext
    /\ run = NoRun
    /\ watch = NoWatch
    /\ loader = NoLoader

NextUsed ==
    \/ \E p \in PyPaths : \E c \in PyContents : WriteFile(p, c)
    \/ \E p \in PyPaths : RemoveFile(p)
    \/ Start
    \/ Scan

SpecUsed == InitUsed /\ [][NextUsed]_vars

\* ---------------------------------------------------------------------------
\* Rescans whose iteration order over the ChangeSet is kept in `run`
\* ---------------------------------------------------------------------------
\* scan_tools after its update u, the files visited in the order c.file_order
ScannedInOrder(u, c) ==
    /\ Scanned("scan",
               apply_changes(u, fs, tools, tasks, c.file_order, c.func_order, c.surfaced),
               TRUE)
    /\ run' = [op |-> "scan_tools", file_order |-> c.file_order]
    /\ UNCHANGED <<edits, tasks, workflows, context, watch, loader>>

ScanOrdered(u) ==
    /\ running
    /\ \E c \in ScanChoices(u.changes, tasks) : ScannedInOrder(u, c)

NextOrder ==
    \/ \E p \in PyPaths : \E c \in PyContents : WriteFile(p, c)
    \/ \E p \in PyPaths : RemoveFile(p)
    \/ Start
    \/ ScanOrdered(update(merkle_tree, fs))

SpecOrder == Init /\ [][NextOrder]_vars

\* ---------------------------------------------------------------------------
\* A source file at any depth below the tools directory: the category
\* _process_tool_file derives for it, create_tool and get_tool_function
\* ---------------------------------------------------------------------------
MaxDepth == 3     \* path parts of the deepest file, the file name included

DepthDirs == {Name("d", ""), Name("e", "")}
DepthStems == {"a", "b"}

DepthPaths ==
    UNION {{Append(ds, Name(s, "py")) : ds \in [1..(k - 1) -> DepthDirs], s \in DepthStems}
              : k \in 1..MaxDepth}

\* a tools directory that holds the one source file p with the one function n
OneFileFs(p, n, doc) ==
    [dirs |-> {SubSeq(p, 1, k) : k \in 1..(Len(p) - 1)},
     files |-> (p :> [funcs |-> (n :> [doc |-> doc, body |-> "b0"]), extra |-> "e0"])]

InitDepth ==
    /\ fs \in {OneFileFs(p, n, doc) : p \in DepthPaths, n \in FuncNames, doc \in Docs}
    /\ tools = NoTools
    /\ merkle_state = None
    /\ saved_fs = EmptyFs
    /\ edits = 0
    /\ running = FALSE
    /\ merkle_tree = NoTree
    /\ tasks = NoTasks
    /\ last = Other("init")
    /\ workflows = NoWorkflows
    /\ context = NoContext
    /\ run = NoRun
    /\ watch = NoWatch
    /\ loader = NoLoader

Registered(p, n, r) ==
    /\ tools' = r.tools
    /\ fs' = [fs EXCEPT !.dirs = r.dirs]
    /\ run' = [op |-> "create_tool", file |-> p, name |-> n, raised |-> r.raised]
    /\ UNCHANGED <<edits, running, merkle_tree, tasks, merkle_state, saved_fs, last,
                   workflows, context, watch, loader>>

\* create_tool(func_name, description, category) with the category derived
\* from the file's path
RegisterTool(p, n) ==
    /\ run.op = "none"
    /\ p \in DOMAIN fs.files
    /\ n \in DOMAIN fs.files[p].funcs
    /\ Registered(p, n, create_tool(tools, fs.dirs, n, Description(fs.files[p].funcs[n].doc),
                                    CategoryOf(p)))

Resolved_as(r) ==
    /\ run' = [op |-> "get_tool_function", file |-> run.file, name |-> run.name,
               registered |-> ~run.raised, raised |-> r.raised, function |-> r.function]
    /\ UNCHANGED <<fs, edits, running, merkle_tree, tools, tasks, merkle_state, saved_fs,
                   last, workflows, context, watch, loader>>

\* get_tool_function(name) after the registration
ResolveTool ==
    /\ run.op = "create_tool"
    /\ Resolved_as(get_tool_function(tools, fs, run.name))

NextDepth ==
    \/ \E p \in DepthPaths, n \in FuncNames : RegisterTool(p, n)
    \/ ResolveTool

SpecDepth == InitDepth /\ [][NextDepth]_vars

\* ---------------------------------------------------------------------------
\* ToolManager.sync_tools
\* ---------------------------------------------------------------------------
\* scan_tools_dir: the function nodes below a node
RECURSIVE FunctionNodes(_)
FunctionNodes(node) ==
    IF node.is_function THEN {node}
    ELSE UNION {FunctionNodes(node.children[k]) : k \in DOMAIN node.children}

\* fs_tools, {category: {name: description}} kept as its (category, name) entries
FsTools(root) ==
    {[category |-> CategoryOf(n.path.file), name |-> n.function_name,
      description |-> Description(n.function_doc)] : n \in FunctionNodes(root)}

FsNames(fs_tools, category) == {t.name : t \in {x \in fs_tools : x.category = category}}

FsDescription(fs_tools, category, name) ==
    (CHOOSE t \in fs_tools : t.category = category /\ t.name = name).description

\* db_tools[category], from the Tool records read before the loop
DbNames(db_tools, category) == {n \in DOMAIN db_tools : db_tools[n].category = category}

\* a create or update of sync_tools: nothing catches what it raises
Uncaught(st, r) == [ScanState(r.tools, r.dirs, r.raised) EXCEPT !.embedded = st.embedded]

\* one round of the loop over all_tools
sync_tool(st, tasks_, fs_tools, db_tools, category, tool_name, surfaced) ==
    IF tool_name \in FsNames(fs_tools, category)
    THEN IF tool_name \notin DbNames(db_tools, category)
         THEN Uncaught(st, create_tool(st.tools, st.dirs, tool_name,
                                       FsDescription(fs_tools, category, tool_name),
                                       category))
         ELSE IF db_tools[tool_name].description
                    # FsDescription(fs_tools, category, tool_name)
         THEN Uncaught(st, update_tool(st.tools, st.dirs, tool_name,
                                       FsDescription(fs_tools, category, tool_name),
                                       category))
         ELSE st
    ELSE remove_tool(st, tasks_, tool_name, surfaced)

RECURSIVE sync_category(_, _, _, _, _, _, _)
sync_category(st, tasks_, fs_tools, db_tools, category, names, surfaced) ==
    IF names = <<>> \/ st.err THEN st
    ELSE sync_category(sync_tool(st, tasks_, fs_tools, db_tools, category, Head(names),
                                 surfaced),
                       tasks_, fs_tools, db_tools, category, Tail(names), surfaced)

\* the loop over all_categories, visited in the order `categories`
RECURSIVE sync_categories(_, _, _, _, _, _, _)
sync_categories(st, tasks_, fs_tools, db_tools, categories, func_order, surfaced) ==
    IF categories = <<>> \/ st.err THEN st
    ELSE sync_categories(
            sync_category(st, tasks_, fs_tools, db_tools, Head(categories),
                          Ordered(FsNames(fs_tools, Head(categories))
                                    \cup DbNames(db_tools, Head(categories)), func_order),
                          surfaced),
            tasks_, fs_tools, db_tools, Tail(categories), func_order, surfaced)

AllCategories(fs_tools, db_tools) ==
    {t.category : t \in fs_tools} \cup {db_tools[n].category : n \in DOMAIN db_tools}

\* sync_tools, root being the tree it builds first
sync_tools(root, store, dirs, tasks_, categories, func_order, surfaced) ==
    sync_categories(ScanState(store, dirs, FALSE), tasks_, FsTools(root), store,
                    categories, func_order, surfaced)

\* what a sync_tools call leaves: the new root in the tree (previous_root, the
\* changed functions and the persisted state stay as they are), the records,
\* the category directories
Synced(root, categories, r) ==
    /\ tools' = r.tools
    /\ fs' = [fs EXCEPT !.dirs = r.dirs]
    /\ merkle_tree' = [merkle_tree EXCEPT !.root = Some(root)]
    /\ run' = [op |-> "sync_tools", categories |-> categories, completed |-> ~r.err,
               tools_before |-> tools]
    /\ last' = Other("sync")
    /\ UNCHANGED <<edits, running, tasks, merkle_state, saved_fs, workflows, context,
                   watch, loader>>

SyncChoices(root, store, tasks_) ==
    {[categories |-> co, func_order |-> fu, surfaced |-> su] :
        co \in Orders(AllCategories(FsTools(root), store)),
        fu \in {CHOOSE o \in FuncOrders : TRUE},
        su \in IF tasks_ = NoTasks THEN {FALSE} ELSE BOOLEAN}

SyncFrom(root) ==
    \E c \in SyncChoices(root, tools, tasks) :
        Synced(root, c.categories,
               sync_tools(root, tools, fs.dirs, tasks, c.categories, c.func_order,
                          c.surfaced))

SyncTools ==
    /\ running
    /\ SyncFrom(build_tree(fs, <<>>))

NextSync ==
    \/ \E p \in PyPaths : \E c \in PyContents : WriteFile(p, c)
    \/ \E p \in PyPaths : RemoveFile(p)
    \/ Start
    \/ Scan
    \/ SyncTools

SpecSync == Init /\ [][NextSync]_vars

\* ---------------------------------------------------------------------------
\* The file watcher: ToolManager.__init__ starts the observer thread and then
\* scans; ToolFileHandler.on_any_event scans from the observer thread.
\* ---------------------------------------------------------------------------
ScanDelay == 1    \* self._scan_delay, seconds
MaxTime == 2      \* seconds of the clock a behaviour covers

Threads == {"main", "watcher"}

\* time.time() is far above _scan_delay when the process starts
StartClock == ScanDelay

FileEvent(path, at) == [path |-> path, at |-> at]
ScanStart(by, at) == [by |-> by, at |-> at]

\* a thread inside scan_tools: the ChangeSet its update() returned, and for the
\* watcher the current_time its handler read
Inside(changes, now) == Some([changes |-> changes, now |-> now])

\* history: arrivals the times the .py events came, seen how many rescans had
\* started when each came, starts who started a rescan and when
Watch(pc, clock, last_scan, queue, in, tree_fs, arrivals, starts) ==
    [pc |-> pc, clock |-> clock, last_scan |-> last_scan, queue |-> queue, in |-> in,
     tree_fs |-> tree_fs, arrivals |-> arrivals, seen |-> <<>>, starts |-> starts]

InitWatch ==
    /\ fs = Fs1
    /\ tools = Tools1
    /\ merkle_state = State1
    /\ saved_fs = Fs1
    /\ edits = 0
    /\ running = FALSE
    /\ merkle_tree = NoTree
    /\ tasks = NoTasks
    /\ last = Other("init")
    /\ workflows = NoWorkflows
    /\ context = NoContext
    /\ run = NoRun
    /\ watch = Watch("new", StartClock, 0, <<>>, [t \in Threads |-> None], Fs1, <<>>, <<>>)
    /\ loader = NoLoader

\* ToolManager.__init__ up to and including _setup_file_watcher()
SetupWatcher ==
    /\ watch.pc = "new"
    /\ merkle_tree' = load_merkle_state(NewTree(fs), merkle_state)
    /\ running' = TRUE
    /\ watch' = [watch EXCEPT !.pc = "up"]
    /\ last' = Other("setup")
    /\ UNCHANGED <<fs, edits, tools, tasks, merkle_state, saved_fs, workflows, context,
                   run, loader>>

\* a second passes
Tick ==
    /\ watch.clock < StartClock + MaxTime
    /\ watch' = [watch EXCEPT !.clock = @ + 1]
    /\ UNCHANGED <<fs, edits, running, merkle_tree, tools, tasks, merkle_state, saved_fs,
                   last, workflows, context, run, loader>>

Toggled(extra) == IF extra = "e0" THEN "e1" ELSE "e0"

\* somebody saves file p; a started observer queues the event
TouchFile(p) ==
    /\ edits < MaxEdits
    /\ p \in DOMAIN fs.files
    /\ fs' = [fs EXCEPT !.files[p].extra = Toggled(@)]
    /\ edits' = edits + 1
    /\ watch' = IF watch.pc = "up"
                THEN [watch EXCEPT
                         !.queue = Append(@, FileEvent(p, watch.clock)),
                         !.arrivals = IF EndsWithPy(p) THEN Append(@, watch.clock) ELSE @,
                         !.seen = IF EndsWithPy(p) THEN Append(@, Len(watch.starts))
                                  ELSE @]
                ELSE watch
    /\ last' = Other("edit")
    /\ UNCHANGED <<running, merkle_tree, tools, tasks, merkle_state, saved_fs, workflows,
                   context, run, loader>>

\* thread t enters scan_tools: changes = self.merkle_tree.update()
Entered(t, u, now) ==
    /\ merkle_tree' = u.tree
    /\ watch' = [watch EXCEPT !.in[t] = Inside(u.changes, now),
                              !.tree_fs = fs,
                              !.starts = Append(@, ScanStart(t, watch.clock)),
                              !.queue = IF t = "watcher" THEN Tail(@) ELSE @]
    /\ last' = Other("enter")
    /\ UNCHANGED <<fs, edits, running, tools, tasks, merkle_state, saved_fs, workflows,
                   context, run, loader>>

\* the rest of scan_tools in thread t: the loops over the ChangeSet, with the
\* tree as it is now, and _save_merkle_state; the handler then sets _last_scan
Left(t, r) ==
    /\ tools' = r.tools
    /\ fs' = [fs EXCEPT !.dirs = r.dirs]
    /\ merkle_state' = IF r.completed THEN save_merkle_state(merkle_tree) ELSE merkle_state
    /\ saved_fs' = IF r.completed THEN watch.tree_fs ELSE saved_fs
    /\ watch' = [watch EXCEPT !.in[t] = None,
                              !.last_scan = IF t = "watcher" /\ r.completed
                                            THEN watch.in[t][1].now ELSE @]
    /\ last' = Other("leave")
    /\ UNCHANGED <<edits, running, merkle_tree, tasks, workflows, context, run, loader>>

\* the initial scan of __init__, and scan_tools called by the host afterwards
BeginScan ==
    /\ watch.pc = "up"
    /\ watch.in["main"] = None
    /\ Len(SelectSeq(watch.starts, LAMBDA x : x.by = "main")) < MaxEdits
    /\ Entered("main", update(merkle_tree, fs), watch.clock)

EndScan(t) ==
    /\ watch.pc = "up"
    /\ watch.in[t] # None
    /\ \E c \in ScanChoices(watch.in[t][1].changes, tasks) :
          Left(t, apply_changes([tree |-> merkle_tree, changes |-> watch.in[t][1].changes],
                                fs, tools, tasks, c.file_order, c.func_order, c.surfaced))

\* an event the handler lets go: a directory or non-Python path, or one that
\* comes less than _scan_delay after _last_scan
Skipped ==
    /\ watch' = [watch EXCEPT !.queue = Tail(@)]
    /\ last' = Other("skip")
    /\ UNCHANGED <<fs, edits, running, merkle_tree, tools, tasks, merkle_state, saved_fs,
                   workflows, context, run, loader>>

\* ToolFileHandler.on_any_event, called in the observer thread for the next event
OnAnyEvent ==
    /\ watch.pc = "up"
    /\ watch.in["watcher"] = None
    /\ watch.queue # <<>>
    /\ IF ~EndsWithPy(Head(watch.queue).path) THEN Skipped
       ELSE IF watch.clock - watch.last_scan >= ScanDelay
       THEN Entered("watcher", update(merkle_tree, fs), watch.clock)
       ELSE Skipped

NextWatch ==
    \/ SetupWatcher
    \/ Tick
    \/ \E p \in FilePaths : TouchFile(p)
    \/ BeginScan
    \/ \E t \in Threads : EndScan(t)
    \/ OnAnyEvent

SpecWatch == InitWatch /\ [][NextWatch]_vars

\* The observer thread goes on handling queued events, a thread inside
\* scan_tools goes on to its end, and time passes; nobody is bound to save a
\* file or to call scan_tools.
\* the observer thread can take the next event: ENABLED <<OnAnyEvent>>_vars
HandlerReady ==
    /\ watch.pc = "up"
    /\ watch.in["watcher"] = None
    /\ watch.queue # <<>>

\* The observer thread keeps dispatching queued events, a scan that has started
\* runs to its end, and time passes. The first conjunct is WF_vars(OnAnyEvent)
\* with its enabling condition written out.
SpecWatchLive ==
    /\ SpecWatch
    /\ ([]<>(~HandlerReady) \/ []<><<OnAnyEvent>>_vars)
    /\ \A t \in Threads : WF_vars(EndScan(t))
    /\ WF_vars(Tick)

\* ---------------------------------------------------------------------------
\* ToolManager.get_tool_function called from several threads of one process
\* ---------------------------------------------------------------------------
LoadThreads == {"t1", "t2", "t3"}
LoadTools == {"double", "stringify"}

\* "<category_name>.<module_name>", the key in sys.modules
ModuleName(category) == category

\* a module object: the names its namespace holds, and whether exec_module
\* has returned for it
ModuleObject(names, executed) == [names |-> names, executed |-> executed]

Idle == [pc |-> "idle", tool |-> "", module |-> 0, result |-> ""]

InitLoad ==
    /\ fs = ExecFs
    /\ tools = ExecTools
    /\ merkle_state = Some(get_state(update(NewTree(ExecFs), ExecFs).tree))
    /\ saved_fs = ExecFs
    /\ edits = 0
    /\ running = FALSE
    /\ merkle_tree = NoTree
    /\ tasks = NoTasks
    /\ last = Other("init")
    /\ workflows = NoWorkflows
    /\ context = NoContext
    /\ run = NoRun
    /\ watch = NoWatch
    /\ loader = [pc |-> "up",
                 sys_modules |-> [m \in {} |-> 0],
                 objects |-> <<>>,
                 threads |-> [t \in LoadThreads |-> Idle],
                 executions |-> 0]

Loaded(l) ==
    /\ loader' = l
    /\ UNCHANGED <<fs, edits, running, merkle_tree, tools, tasks, merkle_state, saved_fs,
                   last, workflows, context, run, watch>>

\* the lookup of the tool, the path test and `if module_name in sys.modules`
Lookup(t, tool_name) ==
    /\ loader.pc = "up"
    /\ loader.threads[t].pc = "idle"
    /\ Loaded(
         IF get_tool_function(tools, fs, tool_name).raised
            /\ get_tool_function(tools, fs, tool_name).error # "AttributeError"
         THEN [loader EXCEPT !.threads[t] =
                   [pc |-> "done", tool |-> tool_name, module |-> 0,
                    result |-> get_tool_function(tools, fs, tool_name).error]]
         ELSE IF ModuleName(tools[tool_name].category) \in DOMAIN loader.sys_modules
         THEN [loader EXCEPT !.threads[t] =
                   [pc |-> "module", tool |-> tool_name,
                    module |-> loader.sys_modules[ModuleName(tools[tool_name].category)],
                    result |-> ""]]
         ELSE [loader EXCEPT !.threads[t] =
                   [pc |-> "absent", tool |-> tool_name, module |-> 0, result |-> ""]])

\* module = module_from_spec(spec); sys.modules[module_name] = module
CacheModule(t) ==
    /\ loader.pc = "up"
    /\ loader.threads[t].pc = "absent"
    /\ Loaded([loader EXCEPT
           !.objects = Append(@, ModuleObject({}, FALSE)),
           !.sys_modules = (ModuleName(tools[loader.threads[t].tool].category)
                              :> (Len(loader.objects) + 1)) @@ @,
           !.threads[t].pc = "cached",
           !.threads[t].module = Len(loader.objects) + 1])

\* spec.loader.exec_module(module): the module body runs and defines its functions
ExecModule(t) ==
    /\ loader.pc = "up"
    /\ loader.threads[t].pc = "cached"
    /\ Loaded([loader EXCEPT
           !.objects[loader.threads[t].module] =
               ModuleObject(DOMAIN fs.files[ModulePath(tools[loader.threads[t].tool].category)].funcs,
                            TRUE),
           !.executions = @ + 1,
           !.threads[t].pc = "module"])

\* hasattr(module, tool_name), then the AttributeError or getattr
GetFunction(t) ==
    /\ loader.pc = "up"
    /\ loader.threads[t].pc = "module"
    /\ Loaded([loader EXCEPT
           !.threads[t].pc = "done",
           !.threads[t].result =
               IF loader.threads[t].tool \in loader.objects[loader.threads[t].module].names
               THEN "function" ELSE "AttributeError"])

NextLoad ==
    \/ \E t \in LoadThreads, tool_name \in LoadTools : Lookup(t, tool_name)
    \/ \E t \in LoadThreads : CacheModule(t)
    \/ \E t \in LoadThreads : ExecModule(t)
    \/ \E t \in LoadThreads : GetFunction(t)

SpecLoad == InitLoad /\ [][NextLoad]_vars

\* ---------------------------------------------------------------------------
\* One thread that edits tool files, rescans and resolves tools: sys.modules
\* lives as long as the process
\* ---------------------------------------------------------------------------
\* a module object after exec_module: the functions as the file defined them
\* when the body ran
LoadedModule(funcs) == ModuleObject(DOMAIN funcs, TRUE) @@ [funcs |-> funcs]

InitReload ==
    /\ fs = Fs1
    /\ tools = Tools1
    /\ merkle_state = State1
    /\ saved_fs = Fs1
    /\ edits = 0
    /\ running = FALSE
    /\ merkle_tree = NoTree
    /\ tasks = NoTasks
    /\ last = Other("init")
    /\ workflows = NoWorkflows
    /\ context = NoContext
    /\ run = NoRun
    /\ watch = NoWatch
    /\ loader = [pc |-> "up",
                 sys_modules |-> [m \in {} |-> 0],
                 objects |-> <<>>,
                 threads |-> [t \in {} |-> Idle],
                 executions |-> 0]

\* what `run` keeps of one get_tool_function call: whether the module came
\* from sys.modules, the function object returned, the function the file
\* defines now, and the operation that came before
Resolution(tool_name, cached, raised, function) ==
    [op |-> "get_tool_function", name |-> tool_name, cached |-> cached,
     raised |-> raised, function |-> function,
     declared |-> get_tool_function(tools, fs, tool_name).function,
     after |-> last]

\* hasattr(module, tool_name) and getattr on module object m
FunctionOf(tool_name, cached, m) ==
    IF tool_name \in m.names
    THEN Resolution(tool_name, cached, FALSE, Some(m.funcs[tool_name]))
    ELSE Resolution(tool_name, cached, TRUE, None)

\* the module is not in sys.modules: module_from_spec, sys.modules[...] = module,
\* exec_module
ImportModule(tool_name, module_name, funcs) ==
    /\ loader' = [loader EXCEPT
                     !.objects = Append(@, LoadedModule(funcs)),
                     !.sys_modules = (module_name :> (Len(loader.objects) + 1)) @@ @,
                     !.executions = @ + 1]
    /\ run' = FunctionOf(tool_name, FALSE, LoadedModule(funcs))

\* ToolManager.get_tool_function called by the one thread
GetToolFunction(tool_name) ==
    /\ running
    /\ loader.pc = "up"
    /\ IF get_tool_function(tools, fs, tool_name).raised
          /\ get_tool_function(tools, fs, tool_name).error # "AttributeError"
       THEN /\ run' = Resolution(tool_name, FALSE, TRUE, None)
            /\ loader' = loader
       ELSE IF ModuleName(tools[tool_name].category) \in DOMAIN loader.sys_modules
       THEN /\ run' = FunctionOf(tool_name, TRUE,
                         loader.objects[loader.sys_modules[
                             ModuleName(tools[tool_name].category)]])
            /\ loader' = loader
       ELSE ImportModule(tool_name, ModuleName(tools[tool_name].category),
                         fs.files[ModulePath(tools[tool_name].category)].funcs)
    /\ UNCHANGED <<fs, edits, running, merkle_tree, tools, tasks, merkle_state, saved_fs,
                   last, workflows, context, watch>>

\* Start and Scan leave `run` and `loader` alone: a rescan does not touch
\* sys.modules
NextReload ==
    \/ \E p \in PyPaths : \E c \in PyContents : WriteFile(p, c)
    \/ Start
    \/ Scan
    \/ \E tool_name \in FuncNames : GetToolFunction(tool_name)

SpecReload == InitReload /\ [][NextReload]_vars

\* ---------------------------------------------------------------------------
\* WorkflowManager.execute_workflow and execute_tool
\* ---------------------------------------------------------------------------

\* callers that number the tasks of a workflow against the order they list them
Renumbered(names) ==
    [i \in 1..Len(names) |-> WorkflowTask(names[i], Len(names) + 1 - i)]

\* ORDER BY r.order
RECURSIVE Inserted(_, _)
Inserted(sorted, t) ==
    IF sorted = <<>> THEN <<t>>
    ELSE IF t.order < Head(sorted).order THEN <<t>> \o sorted
    ELSE <<Head(sorted)>> \o Inserted(Tail(sorted), t)

RECURSIVE ByOrder(_)
ByOrder(wtasks) ==
    IF wtasks = <<>> THEN <<>>
    ELSE Inserted(ByOrder(SubSeq(wtasks, 1, Len(wtasks) - 1)), wtasks[Len(wtasks)])

Row(task_name, tool_name) == [task |-> task_name, tool |-> tool_name]

\* the (task)-[:USES]->(tool) rows of one task, in any order the store yields
TaskRows(task_name, tool_names) ==
    {[i \in 1..Len(tool_names) |-> Row(task_name, tool_names[f[i]])] :
        f \in Permutations(1..Len(tool_names))}

\* the records of the MATCH: one row for every tool of every task, the tasks by
\* r.order, the tools of one task in no stated order
RECURSIVE Records(_, _)
Records(tasks_, wtasks) ==
    IF wtasks = <<>> THEN {<<>>}
    ELSE {rows \o rest :
            rows \in TaskRows(Head(wtasks).name, tasks_[Head(wtasks).name].tool_names),
            rest \in Records(tasks_, Tail(wtasks))}

\* importlib.import_module("aflow.tools.<category>.<name>") and getattr: the
\* function, if the host process has such a module
ImportedTool(importable, store, fs_, tool_name) ==
    IF ~importable \/ tool_name \notin DOMAIN store THEN LoadFailed("ImportError")
    ELSE IF Len(store[tool_name].category) # 2 THEN LoadFailed("ImportError")
    ELSE ModuleFunction(fs_, ModulePath(store[tool_name].category), tool_name)

ParamNamesOf(params) == {params[i].name : i \in 1..Len(params)}

\* tool_function(**context_variables): every key of the context is a keyword
Called_with(function, ctx) ==
    IF DOMAIN ctx \subseteq ParamNamesOf(Parameters(function.body))
       /\ missing_params(Parameters(function.body), ctx) = <<>>
    THEN Apply(function.body, ctx)
    ELSE Raised

\* the exception that leaves execute_tool
ToolError(type, tool_name) ==
    Error(type, "Error executing tool: " \o tool_name, tool_name, <<>>)

\* the exception that leaves execute_workflow for a failing row
TaskError(task_name, e) ==
    Error("Exception", "Error executing task: " \o task_name \o ": " \o e.about,
          e.tool, e.names)

FlowCall(row, before, result, after) ==
    Call(row.tool, before, before, result, after) @@ [task |-> row.task]

FlowFailed(st, row, e) ==
    [st EXCEPT !.err = TaskError(row.task, e), !.task_err = e]

\* results[task["name"]] = result; context_variables.update(result) for a dict
FlowReturned(st, row, result) ==
    IF result.raised
    THEN [FlowFailed(st, row, ToolError("Exception", row.tool))
            EXCEPT !.calls = Append(@, FlowCall(row, st.ctx, result, st.ctx))]
    ELSE [st EXCEPT !.ctx = IF result.is_dict THEN result.value @@ st.ctx ELSE st.ctx,
                    !.results = (row.task :> result) @@ st.results,
                    !.calls = Append(@, FlowCall(row, st.ctx, result,
                                  IF result.is_dict THEN result.value @@ st.ctx
                                  ELSE st.ctx))]

\* execute_tool for one row
execute_tool(st, row, f) ==
    IF f.raised THEN FlowFailed(st, row, ToolError(f.error, row.tool))
    ELSE FlowReturned(st, row, Called_with(f.function[1], st.ctx))

RECURSIVE run_rows(_, _, _, _, _)
run_rows(st, importable, store, fs_, rows) ==
    IF rows = <<>> \/ st.err # NoError THEN st
    ELSE run_rows(execute_tool([st EXCEPT !.loads = Append(@, Head(rows).tool)],
                               Head(rows),
                               ImportedTool(importable, store, fs_, Head(rows).tool)),
                  importable, store, fs_, Tail(rows))

FlowState(ctx, err) ==
    ExecState(ctx, NoResults, <<>>, <<>>, err) @@ [task_err |-> NoError]

\* the outcomes of WorkflowManager.execute_workflow: one for every order in
\* which the store may yield the rows
execute_workflow(importable, store, tasks_, workflows_, fs_, name, ctx) ==
    IF name \notin DOMAIN workflows_ \/ workflows_[name].task_names = <<>>
    THEN {FlowState(ctx, Error("ValueError", "not_found", "", <<>>))}
    ELSE {run_rows(FlowState(ctx, NoError), importable, store, fs_, rows) :
            rows \in Records(tasks_, ByOrder(workflows_[name].task_names))}

\* Two tasks of the store, a workflow the host makes of them, and one run.
FlowTools == {"double", "stringify", "fail"}
FlowLists == Lists(FlowTools) \ {<<>>}
FlowInputs == {<<>>, <<"n">>}
LaterInputs == {<<"n">>, <<"a">>}
LaterOutputs == {<<>>, <<"s">>}
FlowContexts == {[k \in keys |-> ContextValues[k]] : keys \in SUBSET {"n", "a"}}

InitFlow ==
    /\ fs = ExecFs
    /\ tools = ExecTools
    /\ merkle_state = Some(get_state(update(NewTree(ExecFs), ExecFs).tree))
    /\ saved_fs = ExecFs
    /\ edits = 0
    /\ running = FALSE
    /\ merkle_tree = NoTree
    /\ \E tool_names \in FlowLists, input_params \in FlowInputs,
          later_inputs \in LaterInputs, later_outputs \in LaterOutputs :
          tasks = create_task(ExecTools,
                              create_task(ExecTools, NoTasks, "T", tool_names,
                                          input_params, <<>>).records,
                              "U", <<"stringify">>, later_inputs, later_outputs).records
    /\ last = Other("init")
    /\ workflows = NoWorkflows
    /\ context \in FlowContexts
    /\ run = NoRun
    /\ watch = NoWatch
    /\ loader = NoLoader

\* execute_workflow returned or raised r; the caller's dict is the one updated
FlowExecuted(name, importable, r) ==
    /\ context' = r.ctx
    /\ run' = [op |-> "execute_workflow", name |-> name, context_before |-> context,
               importable |-> importable, raised |-> r.err # NoError, err |-> r.err,
               task_err |-> r.task_err, calls |-> r.calls, loads |-> r.loads,
               results |-> r.results, context |-> r.ctx]
    /\ last' = Other("execute_workflow")
    /\ UNCHANGED <<fs, edits, running, merkle_tree, tools, tasks, merkle_state, saved_fs,
                   workflows,
                   watch, loader>>

\* WorkflowManager.execute_workflow called by the host
ExecuteWorkflow(name, importable) ==
    /\ run.op \notin {"execute_task", "execute_workflow"}
    /\ \E r \in execute_workflow(importable, tools, tasks, workflows, fs, name, context) :
          FlowExecuted(name, importable, r)

\* WorkflowManager.create_workflow with the orders the host gives
CreateWorkflowOf(name, wtasks) ==
    /\ run.op \notin {"execute_task", "execute_workflow"}
    /\ WorkflowCalled("create_workflow", name, TaskNamesOf(wtasks),
                      create_workflow(tasks, workflows, name, wtasks))

NextFlow ==
    \/ \E name \in {"W"}, names \in Lists(AllTaskNames) :
          \E wtasks \in {Numbered(names), Renumbered(names)} :
              CreateWorkflowOf(name, wtasks)
    \/ \E importable \in BOOLEAN : ExecuteWorkflow("W", importable)
    \/ \E task_name \in AllTaskNames : ExecuteTask(task_name)

SpecFlow == InitFlow /\ [][NextFlow]_vars

\* ------------------------------------------------ two trees over two directories
\* Two directories hold files of the same names under d; a MerkleTree is built
\* over each, which hashes them bottom-up.
HashContents(p) ==
    IF EndsWithPy(p)
    THEN {[funcs |-> ("f" :> SrcF), extra |-> "e0"], [funcs |-> ("f" :> SrcG), extra |-> "e0"]}
    ELSE {[funcs |-> NoFuncs, extra |-> e] : e \in Extras}

HashDirs ==
    {[dirs |-> {<<DirD>>}, files |-> files] :
        files \in UNION {{f \in [present -> PyContents \cup TxtContents] :
                            \A p \in present : f[p] \in HashContents(p)}
                          : present \in SUBSET FilePaths}}

InitHash ==
    /\ fs \in HashDirs
    /\ saved_fs \in HashDirs
    /\ DOMAIN fs.files = DOMAIN saved_fs.files
    /\ edits = 0
    /\ running = FALSE
    /\ merkle_tree = NoTree
    /\ tools = NoTools
    /\ tasks = NoTasks
    /\ merkle_state = None
    /\ last = Other("init")
    /\ workflows = NoWorkflows
    /\ context = NoContext
    /\ run = NoRun
    /\ watch = NoWatch
    /\ loader = NoLoader

\* MerkleTree(root_dir) over the one directory and over the other; the two root
\* nodes are kept side by side in root and previous_root
BuildBoth ==
    /\ last.op = "init"
    /\ merkle_tree' = Tree(Some(build_tree(fs, <<>>)), Some(build_tree(saved_fs, <<>>)),
                           NoChangedFunctions)
    /\ last' = Other("build")
    /\ UNCHANGED <<fs, edits, running, tools, tasks, merkle_state, saved_fs, workflows,
                   context, run,
                   watch, loader>>

NextHash == BuildBoth

SpecHash == InitHash /\ [][NextHash]_vars

\* ================================================================== claims
\* A scan (the constructor's or a later one) has returned normally.
ScanDone == last.op \in ScanOps /\ last.completed

SourceFiles == {NodePath(p, "") : p \in PyPaths}

\* the tracked source files of a directory
SourcePaths(f) == {NodePath(q, "") : q \in {x \in DOMAIN f.files : EndsWithPy(x)}}

\* the public functions of file p in the snapshot the last scan compared with,
\* and in the snapshot it built
PrevFuncs(p) == FunctionNames(Walk(merkle_tree.previous_root, p.file))
CurFuncs(p) == FunctionNames(Walk(merkle_tree.root, p.file))

\* the files the last scan reported
Reported == last.changes.added \cup last.changes.modified \cup last.changes.removed

\* C1: after a completed rescan that sees a source file absent from the previous
\* snapshot, every public function of the file has a ToolRecord whose category
\* is the file's module path and whose description is the function's doc
\* comment, or empty.
C1_AddedFileRegistered ==
    ScanDone =>
        \A p \in last.changes.added : \A n \in DOMAIN fs.files[p.file].funcs :
            /\ n \in DOMAIN tools
            /\ tools[n].category = CategoryOf(p.file)
            /\ tools[n].description = Description(fs.files[p.file].funcs[n].doc)

\* C2: after a completed rescan that sees a tracked file gone, no ToolRecord
\* remains for a function the previous snapshot held for that file, unless a
\* Task references the tool.
C2_RemovedFileToolsGone ==
    ScanDone =>
        \A p \in last.changes.removed : \A n \in PrevFuncs(p) :
            ~Referenced(tasks, n) => n \notin DOMAIN tools

\* a completed rescan saw a file gone and deleted the record of one of its functions
C2_Witness ==
    /\ ScanDone
    /\ \E p \in last.changes.removed : \E n \in PrevFuncs(p) :
         /\ n \in DOMAIN last.tools_before
         /\ ~Referenced(tasks, n)
         /\ n \notin DOMAIN tools

\* the doc comment of function n of file p in a snapshot
DocIn(root, p, n) == Walk(root, p.file)[1].children[n].function_doc

\* function n is in file p in both snapshots, with different doc comments
DocChanged(p, n) ==
    /\ n \in PrevFuncs(p) \cap CurFuncs(p)
    /\ DocIn(merkle_tree.previous_root, p, n) # DocIn(merkle_tree.root, p, n)

\* no file other than p that the last scan reported defines or defined n
OnlyIn(p, n) == \A q \in Reported \ {p} : n \notin PrevFuncs(q) \cup CurFuncs(q)

\* the record of n shows the new doc comment of p's n, its category unchanged
DocApplied(p, n) ==
    /\ n \in DOMAIN tools
    /\ tools[n].description = Description(DocIn(merkle_tree.root, p, n))
    /\ tools[n].category = last.tools_before[n].category

\* C3, as stated: after a completed rescan that sees a changed doc comment on an
\* already registered public function, the function's ToolRecord has the new doc
\* comment as description, and its name and category are as before.
C3_DocChangeApplied ==
    ScanDone =>
        \A p \in SourceFiles : \A n \in FuncNames :
            (DocChanged(p, n) /\ n \in DOMAIN last.tools_before) => DocApplied(p, n)

\* C3, amended: the same, for a function whose ToolRecord carries the file's
\* category, provided no other file the rescan reports defines or defined a
\* function of that name.
C3_DocChangeAppliedAlone ==
    ScanDone =>
        \A p \in SourceFiles : \A n \in FuncNames :
            ( /\ DocChanged(p, n)
              /\ n \in DOMAIN last.tools_before
              /\ last.tools_before[n].category = CategoryOf(p.file)
              /\ OnlyIn(p, n) )
            => DocApplied(p, n)

\* a completed rescan saw the doc comment of a registered function change and
\* rewrote the record's description
C3_Witness ==
    /\ ScanDone
    /\ \E p \in SourceFiles : \E n \in FuncNames :
         /\ DocChanged(p, n)
         /\ n \in DOMAIN last.tools_before
         /\ last.tools_before[n].category = CategoryOf(p.file)
         /\ OnlyIn(p, n)
         /\ n \in DOMAIN tools
         /\ tools[n].description # last.tools_before[n].description

\* function n was removed from file p, which is in both snapshots
FuncRemoved(p, n) ==
    /\ Walk(merkle_tree.previous_root, p.file) # None
    /\ Walk(merkle_tree.root, p.file) # None
    /\ n \in PrevFuncs(p) \ CurFuncs(p)

\* C4, as stated: when a rescan sees a public function removed from a file that
\* still exists, the ToolRecord of that name is deleted if no Task references
\* it, and the ToolRecords of the functions still in the file are kept.
C4_RemovedFunctionDeleted ==
    ScanDone =>
        \A p \in SourceFiles : \A n \in FuncNames :
            FuncRemoved(p, n) =>
                /\ ~Referenced(tasks, n) => n \notin DOMAIN tools
                /\ \A m \in CurFuncs(p) :
                     m \in DOMAIN last.tools_before => m \in DOMAIN tools

\* C4, amended: the same after a completed rescan, each part provided no other
\* file the rescan reports defines (for the deletion) or defines or defined (for
\* the functions kept) a function of the name in question.
C4_RemovedFunctionDeletedAlone ==
    ScanDone =>
        \A p \in SourceFiles : \A n \in FuncNames :
            FuncRemoved(p, n) =>
                /\ (~Referenced(tasks, n) /\ \A q \in Reported \ {p} : n \notin CurFuncs(q))
                     => n \notin DOMAIN tools
                /\ \A m \in CurFuncs(p) :
                     (m \in DOMAIN last.tools_before /\ OnlyIn(p, m)) => m \in DOMAIN tools

\* a completed rescan saw a function removed from a file, deleted its record and
\* kept the record of a function still in the file
C4_Witness ==
    /\ ScanDone
    /\ \E p \in SourceFiles : \E n \in FuncNames :
         /\ FuncRemoved(p, n)
         /\ ~Referenced(tasks, n)
         /\ n \in DOMAIN last.tools_before
         /\ n \notin DOMAIN tools
         /\ \E m \in CurFuncs(p) :
              m \in DOMAIN last.tools_before /\ OnlyIn(p, m) /\ m \in DOMAIN tools

\* the tools the last scan had to delete although a Task references them: their
\* function left a file that still exists, or their file is gone
RefusedDeletes ==
    {n \in DOMAIN last.tools_before :
        /\ Referenced(tasks, n)
        /\ \/ \E p \in last.changes.modified : n \in PrevFuncs(p) \ CurFuncs(p)
           \/ \E p \in last.changes.removed : n \in PrevFuncs(p)}

\* C5: deleting a Tool that a Task references (a rescan finds its source
\* function gone) is rejected with an error, and the Tool record and the Task's
\* reference to it stay.
C5_ReferencedDeleteRejected ==
    (last.op = "scan" /\ RefusedDeletes # {}) =>
        /\ ~last.completed
        /\ \A n \in RefusedDeletes : n \in DOMAIN tools /\ Referenced(tasks, n)

\* C6: a rescan right after a completed rescan, the directory not changed in
\* between, returns an empty ChangeSet and leaves the tool records as they
\* were; and a tree compared with itself reports nothing.
C6_RescanIdempotent ==
    /\ (last.op \in ScanOps /\ last.follows) =>
          /\ last.changes = NoChangeSet
          /\ last.completed
          /\ tools = last.tools_before
    /\ compare_nodes(merkle_tree.root, merkle_tree.root) = NoChanges

\* a rescan ran right after a completed rescan, over a directory with tool
\* files and a store with tool records
C6_Witness ==
    /\ last.op = "scan"
    /\ last.follows
    /\ SourcePaths(fs) # {}
    /\ tools # NoTools
    /\ last.changes = NoChangeSet

\* C7: on a first run (nothing persisted) the first rescan reports every
\* tracked source file as added and nothing as modified or removed.
C7_FirstRunAllAdded ==
    (last.op = "start" /\ ~last.had_state) =>
        last.changes = ChangeSet(SourcePaths(fs), {}, {})

\* what changed between two directory contents, told from the files' bytes
FsDiff(old, new) ==
    ChangeSet(SourcePaths(new) \ SourcePaths(old),
              {p \in SourcePaths(new) \cap SourcePaths(old) :
                  new.files[p.file] # old.files[p.file]},
              SourcePaths(old) \ SourcePaths(new))

\* C8: the snapshot a completed rescan persists comes back through get_state and
\* load_state as it was; the first rescan after a restart that loads it returns
\* exactly the changes made to the directory since it was persisted, none if
\* there were none.
C8_SnapshotRoundTrip ==
    /\ merkle_state # None =>
          get_state(load_state(NoTree, merkle_state[1])) = merkle_state[1]
    /\ (running /\ ScanDone) =>
          /\ merkle_state # None
          /\ load_state(NoTree, merkle_state[1])
               = [merkle_tree EXCEPT !.changed_functions = NoChangedFunctions]
    /\ (last.op = "start" /\ last.had_state) => last.changes = FsDiff(last.since, fs)

\* a restarted process loaded the persisted snapshot and its first rescan
\* reported a file changed since
C8_Witness ==
    /\ last.op = "start"
    /\ last.had_state
    /\ last.completed
    /\ last.changes.modified # {}
    /\ merkle_state # None

\* C9: the added, modified and removed sets of one ChangeSet are pairwise
\* disjoint.
C9_ChangeSetDisjoint ==
    last.op \in ScanOps =>
        /\ last.changes.added \cap last.changes.modified = {}
        /\ last.changes.added \cap last.changes.removed = {}
        /\ last.changes.modified \cap last.changes.removed = {}

\* one rescan reported one file modified and another removed
C9_Witness ==
    /\ last.op \in ScanOps
    /\ last.changes.modified # {}
    /\ last.changes.removed # {}

\* C10: every path in a ChangeSet that update or get_changes returns, the
\* no-previous-snapshot case included, is the path of a tracked source file.
C10_OnlySourceFiles ==
    last.op \in {"update", "get_changes"} => \A p \in Reported : IsPyPath(p)

\* ---------------------------------------------------------------- C11
\* the hash of function n of file p under root
FuncHashIn(root, p, n) == Walk(root, p.file)[1].children[n].hash

\* Between the two snapshots function old of file p was renamed to new: old is
\* the only name that went, new the only one that came, its source is the same
\* but for the name, and the functions that stayed kept their source.
RenamedIn(p, old, new) ==
    /\ PrevFuncs(p) \ CurFuncs(p) = {old}
    /\ CurFuncs(p) \ PrevFuncs(p) = {new}
    /\ \E src \in FuncSrcs :
          /\ FuncHashIn(merkle_tree.previous_root, p, old)
                = calculate_function_hash(FuncText(old, src))
          /\ FuncHashIn(merkle_tree.root, p, new)
                = calculate_function_hash(FuncText(new, src))
    /\ \A n \in PrevFuncs(p) \cap CurFuncs(p) :
          FuncHashIn(merkle_tree.previous_root, p, n) = FuncHashIn(merkle_tree.root, p, n)

\* C11: after a scan, a function renamed inside a file that is in both snapshots
\* is reported as a change of exactly the old and the new name of that file, and
\* the file is in modified and neither in added nor in removed.
C11_RenameReported ==
    last.op \in ScanOps =>
        \A p \in SourceFiles : \A old, new \in FuncNames :
            RenamedIn(p, old, new) =>
                /\ p \in DOMAIN merkle_tree.changed_functions
                /\ merkle_tree.changed_functions[p] = {old, new}
                /\ p \in last.changes.modified
                /\ p \notin last.changes.added \cup last.changes.removed

C11_Witness ==
    /\ last.op \in ScanOps
    /\ \E p \in SourceFiles : \E old, new \in FuncNames : RenamedIn(p, old, new)

\* ---------------------------------------------------------------- C12
\* C12: two trees (here over directories with the same file names) have
\* different root hashes if and only if some leaf's byte content or function
\* source content differs between them.
C12_RootHashTellsContent ==
    last.op = "build" =>
        ((merkle_tree.root[1].hash # merkle_tree.previous_root[1].hash)
            <=> (fs.files # saved_fs.files))

\* ---------------------------------------------------------------- C13
\* C13: a create_tool call for a name that already has a record, whatever the
\* description and the category, returns that record and writes nothing to the
\* store.
C13_CreateExistingReturnsIt ==
    (run.op = "create_tool" /\ run.name \in DOMAIN run.tools_before) =>
        /\ ~run.raised
        /\ run.returned = Some(run.tools_before[run.name])
        /\ tools = run.tools_before

\* ---------------------------------------------------------------- C14
\* C14: every Tool record has an embedding computed from the name and the
\* description the record now stores.
C14_EmbeddingOfStoredText ==
    \A n \in DOMAIN tools :
        tools[n].embedding = embed_query(n \o " " \o tools[n].description)

\* ---------------------------------------------------------------- C15
\* some workflow of the store ws contains the task
Contained(ws, task_name) ==
    \E w \in DOMAIN ws : \E i \in 1..Len(ws[w].task_names) :
        ws[w].task_names[i].name = task_name

\* C15: delete_task on a Task that a Workflow contains raises and changes
\* nothing; on a Task that no Workflow contains it removes the Task with its
\* tool references, and no Tool record, no other Task and no Workflow.
C15_DeleteTaskOnlyUnused ==
    (run.op = "delete_task" /\ run.name \in DOMAIN run.tasks_before) =>
        /\ tools = run.tools_before
        /\ workflows = run.workflows_before
        /\ IF Contained(run.workflows_before, run.name)
           THEN run.raised /\ tasks = run.tasks_before
           ELSE /\ ~run.raised
                /\ DOMAIN tasks = DOMAIN run.tasks_before \ {run.name}
                /\ \A t \in DOMAIN tasks : tasks[t] = run.tasks_before[t]

C15_Witness ==
    /\ run.op = "delete_task"
    /\ run.name \in DOMAIN run.tasks_before
    /\ Contained(run.workflows_before, run.name)
    /\ run.tasks_before[run.name].tool_names # <<>>

\* ---------------------------------------------------------------- C16
\* the references of the last create call that have no record
Unknown ==
    IF run.op = "create_task" THEN Elements(run.refs) \ DOMAIN run.tools_before
    ELSE IF run.op = "create_workflow" THEN Elements(run.refs) \ DOMAIN run.tasks_before
    ELSE {}

\* the call raised naming every missing reference and created nothing
RejectedWhole ==
    /\ run.raised
    /\ Elements(run.missing) = Unknown
    /\ tasks = run.tasks_before
    /\ workflows = run.workflows_before

\* C16 as stated: create_task with a tool name that has no Tool record, and
\* create_workflow with a task name that has no Task record, raise naming every
\* missing reference and create no record and no relationship.
C16_MissingReferencesRejected ==
    Unknown # {} => RejectedWhole

\* C16 amended: the same for a name that has no Task (Workflow) record yet.
C16_MissingReferencesRejectedNew ==
    /\ (run.op = "create_task" /\ run.name \notin DOMAIN run.tasks_before /\ Unknown # {})
          => RejectedWhole
    /\ (run.op = "create_workflow" /\ run.name \notin DOMAIN run.workflows_before
          /\ Unknown # {}) => RejectedWhole

C16_Witness ==
    /\ run.op = "create_task"
    /\ run.name \notin DOMAIN run.tasks_before
    /\ Cardinality(Unknown) = 2

\* ---------------------------------------------------------------- C17
\* the task execute_task was last called on, and its input_params the caller's
\* context did not hold
Executing == run.op = "execute_task" /\ run.name \in DOMAIN tasks
AbsentInputs == Elements(tasks[run.name].input_params) \ DOMAIN run.context_before

\* the call raised the missing-input error naming every absent name, asked for
\* no tool function, called none and left the caller's context as it was
RejectedUnrun ==
    /\ run.err.about = "missing_inputs"
    /\ Elements(run.err.names) = AbsentInputs
    /\ run.loads = <<>>
    /\ run.calls = <<>>
    /\ context = run.context_before

\* C17 as stated: execute_task on a task whose input_params hold names absent
\* from the context fails with the missing-input error listing all of them,
\* loads and invokes no tool and leaves the context unchanged.
C17_MissingInputRejected ==
    (Executing /\ AbsentInputs # {}) => RejectedUnrun

\* C17 amended: the same for a task that has at least one tool.
C17_MissingInputRejectedWithTools ==
    (Executing /\ tasks[run.name].tool_names # <<>> /\ AbsentInputs # {}) => RejectedUnrun

C17_Witness ==
    /\ Executing
    /\ tasks[run.name].tool_names # <<>>
    /\ Cardinality(AbsentInputs) = 2
    /\ run.context_before # NoContext

\* ---------------------------------------------------------------- C18
\* C18: execute_task invokes the task's tools once each in ascending order (up
\* to the tool that fails, if one does), the k-th with arguments read from the
\* context as the results of tools 1..k-1 left it; the chain [double, stringify]
\* run on {n: 3} returns outputs {s: "6"} and context {n: 6, s: "6"}.
C18_ToolsInOrder ==
    Executing =>
        /\ Len(run.calls) <= Len(tasks[run.name].tool_names)
        /\ ~run.raised => Len(run.calls) = Len(tasks[run.name].tool_names)
        /\ \A k \in 1..Len(run.calls) :
             /\ run.calls[k].tool = tasks[run.name].tool_names[k]
             /\ run.calls[k].before = IF k = 1 THEN run.context_before
                                               ELSE run.calls[k - 1].after
             /\ \A q \in DOMAIN run.calls[k].args :
                  run.calls[k].args[q] = run.calls[k].before[q]
        /\ (/\ tasks[run.name] = TaskRecord(<<"double", "stringify">>, <<"n">>, <<"s">>)
            /\ run.context_before = ("n" :> IntV(3)))
           => /\ ~run.raised
              /\ run.outputs = ("s" :> StrV("6"))
              /\ run.context = ("n" :> IntV(6)) @@ ("s" :> StrV("6"))

C18_Witness ==
    /\ Executing
    /\ tasks[run.name] = TaskRecord(<<"double", "stringify">>, <<"n">>, <<"s">>)
    /\ run.context_before = ("n" :> IntV(3))
    /\ Len(run.calls) = 2

\* ---------------------------------------------------------------- C19
ParamNames(tool) ==
    {Parameters(ExecFuncs[tool].body)[i].name : i \in DOMAIN Parameters(ExecFuncs[tool].body)}
Required(tool) ==
    {Parameters(ExecFuncs[tool].body)[i].name :
        i \in {j \in DOMAIN Parameters(ExecFuncs[tool].body) :
                 Parameters(ExecFuncs[tool].body)[j].required}}

\* C19: a tool is invoked with exactly its formal parameters whose names are in
\* the context, bound to the context's values, and only if none of its required
\* parameters is missing; when some are, the error names every one of them.
C19_ParametersBound ==
    Executing =>
        /\ \A k \in 1..Len(run.calls) :
             /\ DOMAIN run.calls[k].args
                  = ParamNames(run.calls[k].tool) \cap DOMAIN run.calls[k].before
             /\ \A q \in DOMAIN run.calls[k].args :
                  run.calls[k].args[q] = run.calls[k].before[q]
             /\ Required(run.calls[k].tool) \subseteq DOMAIN run.calls[k].args
        /\ run.err.about = "missing_params" =>
             /\ run.err.tool = tasks[run.name].tool_names[Len(run.calls) + 1]
             /\ Elements(run.err.names) = Required(run.err.tool) \ DOMAIN run.context
             /\ run.err.names # <<>>

C19_Witness ==
    /\ Executing
    /\ run.err.about = "missing_params"
    /\ Len(run.err.names) = 2
    /\ Len(run.calls) = 1

\* ---------------------------------------------------------------- C20
\* the calls of the last execute_task that returned a value
ReturnedCalls == {k \in 1..Len(run.calls) : ~run.calls[k].result.raised}

\* a dict result adds or overwrites exactly its own keys
DictMerged(c) == c.after = c.result.value @@ c.before

\* C20 as stated: a dict result adds or overwrites exactly its own keys; any
\* other result is stored under the tool's name; every other key of the context
\* keeps its value.
C20_ResultMerged ==
    Executing =>
        \A k \in ReturnedCalls :
            IF run.calls[k].result.is_dict THEN DictMerged(run.calls[k])
            ELSE run.calls[k].after
                   = (run.calls[k].tool :> run.calls[k].result.value) @@ run.calls[k].before

\* the names a non-dict result is stored under besides the tool's: the return
\* annotation if it is a string, and the name the docstring's Returns: section
\* yields
AlsoNamed(tool) ==
    {n \in {"s"} : tool \in {"label", "tag"}} \cup {n \in {"n"} : tool \in {"total", "tag"}}

\* C20 amended: ... any other result is stored under the tool's name and under
\* the declared or documented return name; every other key keeps its value.
C20_ResultMergedNamed ==
    Executing =>
        \A k \in ReturnedCalls :
            IF run.calls[k].result.is_dict THEN DictMerged(run.calls[k])
            ELSE /\ DOMAIN run.calls[k].after
                      = DOMAIN run.calls[k].before \cup {run.calls[k].tool}
                          \cup AlsoNamed(run.calls[k].tool)
                 /\ \A q \in DOMAIN run.calls[k].after :
                      run.calls[k].after[q]
                        = IF q \in {run.calls[k].tool} \cup AlsoNamed(run.calls[k].tool)
                          THEN run.calls[k].result.value
                          ELSE run.calls[k].before[q]

C20_Witness ==
    /\ Executing
    /\ \E k \in ReturnedCalls :
          /\ run.calls[k].tool = "total"
          /\ "n" \in DOMAIN run.calls[k].before
    /\ \E k \in ReturnedCalls : run.calls[k].result.is_dict

\* ---------------------------------------------------------------- C21
\* the calls of the last execute_task in which the tool raised
RaisedCalls == {k \in 1..Len(run.calls) : run.calls[k].result.raised}

\* C21: when the k-th tool raises, execute_task fails with the step error that
\* carries the tool's name and the context as it was when the tool was called,
\* no later tool is invoked, and no results or outputs are returned.
C21_StepErrorCarriesContext ==
    Executing =>
        \A k \in RaisedCalls :
            /\ run.err.type = "RuntimeError"
            /\ run.err.tool = run.calls[k].tool
            /\ "context" \in DOMAIN run.err
            /\ run.err.context = run.calls[k].before
            /\ k = Len(run.calls)
            /\ run.results = NoResults
            /\ run.outputs = NoContext

\* ---------------------------------------------------------------- C22
\* every tool of the task was called and returned
AllReturned ==
    /\ Len(run.calls) = Len(tasks[run.name].tool_names)
    /\ RaisedCalls = {}
    /\ run.calls # <<>>

\* the context the last tool left
FinalContext == run.calls[Len(run.calls)].after

AbsentOutputs == Elements(tasks[run.name].output_params) \ DOMAIN FinalContext

\* the last call of tool t
LastCallOf(t) ==
    CHOOSE k \in 1..Len(run.calls) :
        /\ run.calls[k].tool = t
        /\ \A j \in k + 1..Len(run.calls) : run.calls[j].tool # t

\* C22: after all tools ran without error, execute_task raises the
\* missing-output error naming every absent output_params name, or else returns
\* outputs = the final context restricted to output_params, results = each tool
\* name with its raw result, and the full final context.
C22_OutputsChecked ==
    (Executing /\ AllReturned) =>
        IF AbsentOutputs # {}
        THEN /\ run.raised
             /\ run.err.about = "missing_outputs"
             /\ Elements(run.err.names) = AbsentOutputs
        ELSE /\ ~run.raised
             /\ DOMAIN run.outputs = Elements(tasks[run.name].output_params)
             /\ \A q \in DOMAIN run.outputs : run.outputs[q] = FinalContext[q]
             /\ DOMAIN run.results = Elements(tasks[run.name].tool_names)
             /\ \A t \in DOMAIN run.results :
                  run.results[t] = run.calls[LastCallOf(t)].result
             /\ run.context = FinalContext

C22_Witness ==
    /\ Executing
    /\ AllReturned
    /\ Cardinality(AbsentOutputs) = 1
    /\ Len(tasks[run.name].output_params) = 2

\* ---------------------------------------------------------------- C23
FlowRun == run.op = "execute_workflow" /\ run.name \in DOMAIN workflows

\* the tasks of the executed workflow, by order
FlowTasks == ByOrder(workflows[run.name].task_names)

ProtocolState(ctx, err, calls) == [ctx |-> ctx, err |-> err, calls |-> calls]

ProtocolStep(st, r) == ProtocolState(r.ctx, r.err, st.calls \o r.calls)

\* the tasks run one after the other by execute_task, up to the first that fails
RECURSIVE ByProtocol(_, _)
ByProtocol(st, wtasks) ==
    IF wtasks = <<>> \/ st.err # NoError THEN st
    ELSE ByProtocol(ProtocolStep(st, execute_task(tools, tasks, fs, Head(wtasks).name,
                                                  st.ctx)),
                    Tail(wtasks))

Protocol == ByProtocol(ProtocolState(run.context_before, NoError, <<>>), FlowTasks)

ToolsOf(calls) == [k \in 1..Len(calls) |-> calls[k].tool]

\* C23: execute_workflow runs the tasks in ascending order, each as execute_task
\* runs it: inputs checked against input_params, the tools in their order with
\* parameters bound by name, results merged, outputs checked.
C23_WorkflowByProtocol ==
    (FlowRun /\ FlowTasks # <<>>) =>
        /\ run.raised = (Protocol.err # NoError)
        /\ ToolsOf(run.calls) = ToolsOf(Protocol.calls)
        /\ run.context = Protocol.ctx

\* ---------------------------------------------------------------- C24
\* the tools of the first task of the executed workflow all returned
FirstDone ==
    /\ Len(FlowTasks) = 2
    /\ Len(run.calls) >= Len(tasks[FlowTasks[1].name].tool_names)
    /\ \A k \in 1..Len(tasks[FlowTasks[1].name].tool_names) : ~run.calls[k].result.raised

\* the input_params of the second task that the first task left unbound
Unfed ==
    Elements(tasks[FlowTasks[2].name].input_params)
        \ DOMAIN run.calls[Len(tasks[FlowTasks[1].name].tool_names)].after

\* C24: a workflow whose second task declares an input that the first task
\* never binds is created, and its execution fails with the missing-input error
\* for that name before any tool of the second task is called.
C24_UnfedInputRejected ==
    (FlowRun /\ FirstDone /\ Unfed # {}) =>
        /\ run.raised
        /\ run.err.about = "missing_inputs"
        /\ Elements(run.err.names) = Unfed
        /\ Len(run.calls) = Len(tasks[FlowTasks[1].name].tool_names)

\* ---------------------------------------------------------------- C25
\* C25: when a task of a workflow fails, execute_workflow stops there (nothing
\* is called after the failing step) and the caller receives the error of the
\* failing step itself, same type and same content.
C25_TaskErrorUnchanged ==
    (FlowRun /\ run.raised /\ run.task_err # NoError) =>
        /\ \A k \in 1..Len(run.calls) : run.calls[k].result.raised => k = Len(run.calls)
        /\ run.loads # <<>>
        /\ run.task_err.tool = run.loads[Len(run.loads)]
        /\ run.err = run.task_err

\* ---------------------------------------------------------------- C26
Ran == run.op \in {"execute_task", "execute_workflow"}

\* C26: during one execute_task or execute_workflow the context only grows: every
\* step starts from the context the step before left, no step removes a key, and
\* what the run ends with (returned or raised) holds everything merged so far.
C26_ContextAccumulates ==
    Ran =>
        /\ \A k \in 1..Len(run.calls) :
              /\ DOMAIN run.calls[k].before \subseteq DOMAIN run.calls[k].after
              /\ run.calls[k].before =
                    (IF k = 1 THEN run.context_before ELSE run.calls[k - 1].after)
              /\ run.calls[k].result.raised => run.calls[k].after = run.calls[k].before
        /\ run.context = (IF run.calls = <<>> THEN run.context_before
                          ELSE run.calls[Len(run.calls)].after)
        /\ DOMAIN run.context_before \subseteq DOMAIN run.context

\* a run that failed at its second step after the first step bound a new name
C26_Witness ==
    /\ Ran
    /\ run.raised
    /\ Len(run.calls) = 2
    /\ run.calls[2].result.raised
    /\ DOMAIN run.context # DOMAIN run.context_before
    /\ "a" \in DOMAIN run.context

\* ---------------------------------------------------------------- C27
\* the last scan_tools call, whether it returned or an exception left it
ScanRan == last.op \in ScanOps

\* a delete for file p was refused by the store in the last scan
DeleteFailedIn(p) == \E n \in RefusedDeletes : n \in PrevFuncs(p) \ CurFuncs(p)

\* C27: in one rescan a failed create, update or delete for one file does not
\* keep the changes of the other files of the ChangeSet from being applied: a
\* changed doc comment in another file reaches its ToolRecord, a function
\* removed from another file loses its unreferenced ToolRecord.
C27_OtherFilesApplied ==
    ScanRan =>
        \A p \in last.changes.modified : \A n \in FuncNames :
            ( /\ ~DeleteFailedIn(p)
              /\ \E q \in Reported \ {p} : DeleteFailedIn(q)
              /\ n \in DOMAIN last.tools_before
              /\ last.tools_before[n].category = CategoryOf(p.file)
              /\ OnlyIn(p, n) )
            => /\ DocChanged(p, n) => DocApplied(p, n)
               /\ (FuncRemoved(p, n) /\ ~Referenced(tasks, n)) => n \notin DOMAIN tools

\* ---------------------------------------------------------------- C28
WatcherStarts == SelectSeq(watch.starts, LAMBDA x : x.by = "watcher")

\* every file event so far has been handled
AllHandled == watch.queue = <<>> /\ watch.in["watcher"] = None

\* the file events so far all came within one debounce interval
OneBurst ==
    /\ watch.arrivals # <<>>
    /\ \A i, j \in 1..Len(watch.arrivals) :
          watch.arrivals[j] - watch.arrivals[i] < ScanDelay

\* the watcher's rescans start at least the debounce interval apart
ScansApart ==
    \A i, j \in 1..Len(WatcherStarts) :
        i < j => WatcherStarts[j].at - WatcherStarts[i].at >= ScanDelay

\* C28: the watcher never starts two rescans less than the debounce interval
\* (1 second) apart, and a burst of file events that arrive within one interval
\* causes exactly one rescan.
C28_Debounced ==
    watch.pc = "up" =>
        /\ ScansApart
        /\ (OneBurst /\ AllHandled) => Len(WatcherStarts) = 1

\* ---------------------------------------------------------------- C29
\* C29: rescans are serialized: whoever starts them (the watcher thread, the
\* initial scan of the constructor, a host call), no two executions of scan_tools
\* are in progress at the same time.
C29_ScansSerialized ==
    watch.pc = "up" =>
        Cardinality({t \in Threads : watch.in[t] # None}) <= 1

\* ---------------------------------------------------------------- C30
\* C30: loading and caching a module is a critical section per module: with
\* several resolutions of tools of one module at once the module body runs at
\* most once, no resolution takes from the cache a module whose loading has not
\* completed, and none fails to find a function the module defines.
C30_LoadOnce ==
    loader.pc = "up" =>
        /\ loader.executions <= 1
        /\ \A t \in LoadThreads :
              /\ (loader.threads[t].pc = "module")
                    => loader.objects[loader.threads[t].module].executed
              /\ loader.threads[t].result # "AttributeError"

\* ---------------------------------------------------------------- C31
\* the last operation was a rescan whose iteration order is known
OrderedScanDone == ScanDone /\ last.op = "scan" /\ run.op = "scan_tools"

\* the added and modified files in the order the last rescan visited them
Visited == Ordered(last.changes.added \cup last.changes.modified, run.file_order)

ChangedIn(p, n) ==
    p \in DOMAIN merkle_tree.changed_functions /\ n \in merkle_tree.changed_functions[p]

PlainCalls == {k \in ReturnedCalls : ~run.calls[k].result.is_dict}

\* the names call c's result may be stored under: the tool's name, the declared
\* return name, and the docstring's name only if none is declared
NamesFor(function, tool) ==
    {tool}
      \cup (IF ReturnAnnotation(function.body) # None
            THEN {ReturnAnnotation(function.body)[1]}
            ELSE IF DocReturnName(DocLines(function.doc), 1) # None
            THEN {DocReturnName(DocLines(function.doc), 1)[1]}
            ELSE {})

StoredUnder(c, names) ==
    /\ DOMAIN c.after = DOMAIN c.before \cup names
    /\ \A q \in DOMAIN c.after :
          c.after[q] = IF q \in names THEN c.result.value ELSE c.before[q]

\* C32: for a result that is no dict the docstring's "Returns:" name is bound
\* only when the function declares no return name; with a declared return name
\* the context gains the tool's name and the declared name and nothing from the
\* docstring.
C32_DocNameOnlyUndeclared ==
    Executing =>
        \A k \in PlainCalls :
            StoredUnder(run.calls[k],
                        NamesFor(ExecFuncs[run.calls[k].tool], run.calls[k].tool))

\* ---------------------------------------------------------------- C33
\* the record n had before the last rescan already says what file p declares
AlreadyAsDeclared(p, n) ==
    /\ n \in DOMAIN last.tools_before
    /\ last.tools_before[n].description = Description(DocIn(merkle_tree.root, p, n))
    /\ last.tools_before[n].category = CategoryOf(p.file)

\* C33: when a rescan processes a changed function whose ToolRecord already
\* has the description and category the source declares (only the body
\* changed), nothing is written: the record's description, category and
\* embedding stay as they were and the embedding service is not called for it.
C33_UnchangedNotWritten ==
    ScanDone =>
        \A p \in SourceFiles : \A n \in FuncNames :
            ( /\ ChangedIn(p, n)
              /\ n \in CurFuncs(p)
              /\ AlreadyAsDeclared(p, n)
              /\ OnlyIn(p, n) )
            => /\ n \in DOMAIN tools
               /\ tools[n] = last.tools_before[n]
               /\ n \notin last.embedded

\* ---------------------------------------------------------------- C34
\* the last get_tool_function call came right after a completed rescan that
\* reported the tool's module file as modified, and found the module cached
ResolvedAfterChange ==
    /\ run.op = "get_tool_function"
    /\ run.cached
    /\ run.after.op \in ScanOps
    /\ run.after.completed
    /\ run.name \in DOMAIN tools
    /\ NodePath(ModulePath(tools[run.name].category), "") \in run.after.changes.modified

\* C34: after a rescan detected that the source file of a cached tool module
\* changed, the next resolution of a tool of that module gives the
\* implementation of the changed source, not the one cached before.
C34_ChangedModuleReloaded ==
    ResolvedAfterChange =>
        /\ ~run.raised
        /\ run.function = run.declared

\* ---------------------------------------------------------------- C35
\* an exception left the last scan_tools call of the running manager
ScanAborted == last.op = "scan" /\ ~last.completed /\ running

\* a change of modified file p that the last rescan detected and the store
\* does not show
Unapplied(p) ==
    \E n \in FuncNames :
        /\ n \in DOMAIN last.tools_before
        /\ last.tools_before[n].category = CategoryOf(p.file)
        /\ OnlyIn(p, n)
        /\ \/ DocChanged(p, n) /\ ~DocApplied(p, n)
           \/ FuncRemoved(p, n) /\ ~Referenced(tasks, n) /\ n \in DOMAIN tools

\* the files the next rescan reports if it runs now
ReportedBy(changes) == changes.added \cup changes.modified \cup changes.removed

\* C35: no detected change is dropped: when a rescan aborts after the tree was
\* rebuilt and before all of its ChangeSet was applied, the next rescan of the
\* same process reports the unapplied changes again.
C35_UnappliedReportedAgain ==
    ScanAborted =>
        \A p \in last.changes.modified :
            Unapplied(p) => p \in ReportedBy(update(merkle_tree, fs).changes)

\* ---------------------------------------------------------------- C36
\* a rescan started after the i-th event on a source file came
RescannedSince(i) ==
    /\ i <= Len(watch.seen)
    /\ Len(watch.starts) > watch.seen[i]

\* C36: under the file watcher every change event on a tracked source file is
\* eventually followed by a rescan that starts at or after the event, also when
\* the event comes less than the debounce interval after the last rescan
\* started and no event follows.
C36_EventLeadsToRescan ==
    \A i \in 1..MaxEdits : (i <= Len(watch.seen)) ~> RescannedSince(i)

\* ---------------------------------------------------------------- C37
\* a sync_tools call has just returned
SyncReturned == last.op = "sync" /\ run.op = "sync_tools" /\ run.completed

\* the source files that define a function named n
DefinedIn(n) == {p \in DOMAIN fs.files : EndsWithPy(p) /\ n \in DOMAIN fs.files[p].funcs}

\* the Tool record of n is the one file p asks for
RecordOf(n, p) ==
    /\ n \in DOMAIN tools
    /\ tools[n].category = CategoryOf(p)
    /\ tools[n].description = Description(fs.files[p].funcs[n].doc)

\* C37: when a sync_tools call has returned, every function that one file of
\* the directory defines has a Tool record with that file's category and the
\* function's doc comment as description, and no Tool record has a name that
\* no file defines; also for a name stored under one category and found on
\* disk under another only, in whatever order the categories are visited.
C37_SyncMatchesDirectory ==
    SyncReturned =>
        /\ \A n \in FuncNames : \A p \in DefinedIn(n) : DefinedIn(n) = {p} => RecordOf(n, p)
        /\ \A n \in DOMAIN tools : DefinedIn(n) # {}

\* ---------------------------------------------------------------- C38
\* file p is in the snapshot the last rescan compared with and in the one it built
TrackedBoth(p) ==
    /\ Walk(merkle_tree.previous_root, p.file) # None
    /\ Walk(merkle_tree.root, p.file) # None

\* since the rescan before, function n left file p and came to file q
Moved(n, p, q) ==
    /\ p # q
    /\ TrackedBoth(p)
    /\ TrackedBoth(q)
    /\ n \in PrevFuncs(p) \ CurFuncs(p)
    /\ n \in CurFuncs(q) \ PrevFuncs(q)

\* C38: when between two rescans a public function is removed from one tracked
\* file and a function of the same name is added to another, the rescan leaves
\* a ToolRecord of that name with the category of the new file, whichever of
\* the two files it processes first.
C38_MovedFunctionKept ==
    OrderedScanDone =>
        \A n \in FuncNames : \A p, q \in SourceFiles :
            Moved(n, p, q) => /\ n \in DOMAIN tools
                              /\ tools[n].category = CategoryOf(q.file)

\* ---------------------------------------------------------------- C39
\* C39: Task names stay unique under every interleaving of concurrent
\* create_task calls: the store never holds two Task nodes of one name.
C39_TaskNamesUnique ==
    \A i, j \in 1..Len(run.nodes) : run.nodes[i].name = run.nodes[j].name => i = j

\* ---------------------------------------------------------------- C40
\* C40: for a source file at any depth, the category derived from its path is
\* accepted by create_tool and get_tool_function maps it back to the file: the
\* tool of a file directly under the root, or more than one directory deep, is
\* registered and resolved to the function the file defines.
C40_CategoryRoundTrip ==
    run.op = "get_tool_function" =>
        /\ run.registered
        /\ ~run.raised
        /\ run.function = Some(fs.files[run.file].funcs[run.name])

====
